---- MODULE Spec2Model ----
(***************************************************************************)
(* Model of the chaosmonkey experiment orchestration core:                 *)
(*   - the metric snapshot collectors (core/metrics.py,                    *)
(*     core/prometheus_metrics.py),                                        *)
(*   - the continuous sampler (MetricsCollector.collect_continuous_metrics *)
(*     and the Prometheus node loop of the pipeline),                      *)
(*   - the allocation index of NomadClient.enumerate_targets,              *)
(*   - the experiment pipeline ChaosOrchestrator.run_experiment.           *)
(*                                                                         *)
(* Three specifications share the module's variables:                      *)
(*   SpecSampler   one sampling call, each iteration's backend outcome     *)
(*                 chosen by the environment;                              *)
(*   SpecResolver  the allocation-index loop over an allocation list;      *)
(*   Spec          one run_experiment call on one orchestrator.            *)
(***************************************************************************)
EXTENDS Integers, Sequences, FiniteSets, TLC

\* ------------------------------------------------------------------ bounds
\* largest duration_seconds / interval_seconds of a stand-alone sampling call
MaxDuration == 10
MaxInterval == 2
\* a stand-alone sampling call is explored up to this many iterations
MaxIterations == 5
\* largest metrics_duration of a pipeline run
MaxPipelineDuration == 2
\* backend readings of a stand-alone sampling call are 0..MaxValue
MaxValue == 1
\* longest allocation list given to the allocation index
MaxAllocs == 3

Values == 0..MaxValue

\* inside a pipeline run every answered backend request reads 0: the
\* pipeline branches on the presence of a snapshot, never on its numbers
PipelineValues == {0}

\* ------------------------------------------------------------- snapshots
\* A snapshot dict.  label: <<>> when the dict has no "label" key,
\* <<prefix>> or <<prefix, i>> for f"{prefix}_{i}".  error: "" when the dict
\* has no "error" key.  keys: which of the metric families "cpu", "memory",
\* "disk" the dict carries.  cpu: cpu.percent in tenths of a percentage
\* point (24.9 is 249); mem: memory.usage in bytes; disk: the dict's
\* read_bytes, write_bytes and total_bytes.
NoError == ""
NoLabel == <<>>
Families == {"cpu", "memory", "disk"}

\* tenths of a percentage point per percentage point
CpuUnit == 10

Disk(r, w, t) == [read_bytes |-> r, write_bytes |-> w, total_bytes |-> t]

ErrorSnapshot(label, msg) ==
    [label |-> label, error |-> msg, keys |-> {}, cpu |-> 0, mem |-> 0,
     disk |-> Disk(0, 0, 0)]

MetricsSnapshot(label, keys, v) ==
    [label |-> label, error |-> NoError, keys |-> keys, cpu |-> v, mem |-> v,
     disk |-> Disk(v, v, v)]

\* What the metrics backend does during one collector call: "ok" answers
\* every request with the reading `value`; "fail" makes the first request of
\* the call raise; "partial" answers the first request and makes the
\* per-allocation / per-query requests after it raise.
ReadingsOf(values) ==
    {[result |-> "ok", value |-> v] : v \in values}
      \cup {[result |-> "partial", value |-> 0], [result |-> "fail", value |-> 0]}

\* the collector call made no backend request
NoBackendRequest == [result |-> "none", value |-> 0]

\* what can happen during a call of `collector` ("" : no collector): the
\* Nomad collectors return before any request when there is no client
Readings(collector, client, values) ==
    IF collector = "" \/ (collector # "prometheus" /\ ~client)
    THEN {NoBackendRequest}
    ELSE ReadingsOf(values)

\* ------------------------------------------------------------- collectors
\* MetricsCollector.collect_nomad_allocation_metrics: any exception of the
\* two backend requests is caught and returned as an error dict.
collect_nomad_allocation_metrics(client, label, r) ==
    IF ~client THEN ErrorSnapshot(NoLabel, "Nomad client not available")
    ELSE IF r.result = "ok" THEN MetricsSnapshot(label, Families, r.value)
    ELSE ErrorSnapshot(label, "exception")

\* MetricsCollector.collect_nomad_job_metrics: the job lookup failing gives an
\* error dict; failing allocation lookups are nested in "allocations" and the
\* job dict itself carries neither "error" nor a metric family.
collect_nomad_job_metrics(client, label, r) ==
    IF ~client THEN ErrorSnapshot(NoLabel, "Nomad client not available")
    ELSE IF r.result = "fail" THEN ErrorSnapshot(label, "exception")
    ELSE MetricsSnapshot(label, {}, r.value)

\* MetricsCollector.collect_node_metrics: the node lookup failing gives an
\* error dict; a failing allocation-stats request is skipped (`pass`), the
\* totals stay 0 and no error is recorded.
collect_node_metrics(client, label, r) ==
    IF ~client THEN ErrorSnapshot(NoLabel, "Nomad client not available")
    ELSE IF r.result = "fail" THEN ErrorSnapshot(label, "exception")
    ELSE MetricsSnapshot(label, Families, r.value)

\* PrometheusMetricsCollector.collect_node_metrics: a failing instance check
\* returns the flat zero dict (no metric family, no label, no error); failing
\* cpu / memory / disk queries are logged and leave the zero defaults in the
\* nested dict.
prometheus_collect_node_metrics(r) ==
    IF r.result = "fail" THEN MetricsSnapshot(NoLabel, {}, 0)
    ELSE MetricsSnapshot(NoLabel, Families, r.value)

\* metrics_history after a collector call: the allocation collector appends
\* its result and its error dict, the node collector only its result; nothing
\* is appended without a Nomad client, by the job collector itself, or by the
\* Prometheus collector.  (An appended dict is the snapshot `snap`.)
HistoryAfter(history, collector, client, r, snap) ==
    IF ~client THEN history
    ELSE IF collector = "allocation" THEN Append(history, snap)
    ELSE IF collector = "node" /\ r.result # "fail" THEN Append(history, snap)
    ELSE history

\* -------------------------------------------------------------- sampler
TargetTypes == {"allocation", "job", "node", "service"}

\* iterations = duration_seconds // interval_seconds
Iterations(duration, interval) == duration \div interval

\* a sampler that also sleeps after the last iteration
ShouldSleep_afterLast(k, iterations) == k < iterations

\* `if i < iterations - 1` : sleep unless this is the last iteration
ShouldSleep(k, iterations) == k < iterations - 1

\* the snapshot collect_continuous_metrics takes in iteration k
ContinuousSnapshot(ttype, client, prefix, k, r) ==
    IF ttype = "allocation" THEN collect_nomad_allocation_metrics(client, <<prefix, k>>, r)
    ELSE IF ttype = "job" THEN collect_nomad_job_metrics(client, <<prefix, k>>, r)
    ELSE IF ttype = "node" THEN collect_node_metrics(client, <<prefix, k>>, r)
    ELSE ErrorSnapshot(NoLabel, "Unknown target type")

\* the snapshot the pipeline's Prometheus node loop takes in iteration k
PrometheusLoopSnapshot(k, r) ==
    [prometheus_collect_node_metrics(r) EXCEPT !.label = <<"during", k>>]

\* ------------------------------------------------------ allocation index
\* job ids of allocation records; "" stands for a record without JobID
JobIds == {"web-123", "api-456", ""}
ClientStatuses == {"running", "pending", "complete"}

\* the allocation lists list_allocations can return: record k has ID k
AllocationRecords ==
    [ID : 1..MaxAllocs, JobID : JobIds, ClientStatus : ClientStatuses]
AllocationLists ==
    UNION {{l \in [1..n -> AllocationRecords] : \A k \in 1..n : l[k].ID = k}
              : n \in 0..MaxAllocs}

\* what list_allocations returns when it cannot reach Nomad: one allocation
\* "alloc-1" without a JobID
StubAllocations == <<[ID |-> 1, JobID |-> "", ClientStatus |-> "running"]>>

\* jobs as discover_services returns them
J_web == [Name |-> "web", ID |-> "web-123", Type |-> "service"]
J_api == [Name |-> "api", ID |-> "api-456", Type |-> "service"]
J_batch == [Name |-> "web", ID |-> "web", Type |-> "batch"]

\* the job lists the scheduler can hold
JobLists == {<<>>, <<J_web>>, <<J_web, J_batch>>}

\* what discover_services returns when it cannot reach Nomad
StubServices == <<J_web, J_api>>

\* the client nodes the scheduler can hold, and what list_nodes returns when
\* it cannot reach Nomad
N_client01 == [ID |-> "node-1", Name |-> "client-01"]
NodeLists == {<<>>, <<N_client01>>}
StubNodes == <<[ID |-> "node-1a2b3c4d", Name |-> "client-01"]>>

\* `try: ... except Exception: return <stub data>` of discover_services,
\* list_allocations and list_nodes
FetchOrStub(failed, answer, stub) == IF failed THEN stub ELSE answer

\* the Target built for a job / for a node
ServiceTarget(service) ==
    [identifier |-> service.ID, kind |-> service.Type, name |-> service.Name]
NodeTarget(node) == [identifier |-> node.ID, kind |-> "node", name |-> node.Name]

\* body of `for alloc in allocations:` in NomadClient.enumerate_targets
IndexInsert(index, alloc) ==
    IF alloc.JobID # "" /\ alloc.JobID \notin DOMAIN index
    THEN IF alloc.ClientStatus = "running"
         THEN (alloc.JobID :> alloc) @@ index
         ELSE IF alloc.JobID \notin DOMAIN index
              THEN (alloc.JobID :> alloc) @@ index
              ELSE index
    ELSE index

\* ------------------------------------------------------ comparison engine
Abs(x) == IF x < 0 THEN 0 - x ELSE x

\* max(list, default=d)
MaxOf(S, d) == IF S = {} THEN d ELSE CHOOSE m \in S : \A x \in S : x <= m

\* [s[fam][field] for s in during if fam in s]
DuringCpu(during) == {during[k].cpu : k \in {j \in 1..Len(during) : "cpu" \in during[j].keys}}
DuringMem(during) == {during[k].mem : k \in {j \in 1..Len(during) : "memory" \in during[j].keys}}
\* a disk peak taken over every during snapshot, error dicts included
DuringDisk_unfiltered(during) == {during[k].disk : k \in 1..Len(during)}
DuringDisk(during) == {during[k].disk : k \in {j \in 1..Len(during) : "disk" \in during[j].keys}}

\* a cpu band that includes its edge
CpuRecovered_inclusive(before_cpu, after_cpu) ==
    Abs(after_cpu - before_cpu) <= 5 * CpuUnit

\* `abs(after_cpu - before_cpu) < 5`
CpuRecovered(before_cpu, after_cpu) ==
    Abs(after_cpu - before_cpu) < 5 * CpuUnit

\* a memory band that includes its edge
MemoryRecovered_inclusive(before_mem, after_mem) ==
    10 * Abs(after_mem - before_mem) <= before_mem

\* `abs(after_mem - before_mem) < (before_mem * 0.1)`, compared in tenths:
\* for integer byte counts the double product before_mem * 0.1 lies on the
\* same side of every integer as before_mem / 10
MemoryRecovered(before_mem, after_mem) ==
    10 * Abs(after_mem - before_mem) < before_mem

\* a disk peak that defaults to 0
DiskPeak_zeroDefault(values, before_value) == MaxOf(values, 0)

\* `max([...], default=before_read)` and its write / total twins
DiskPeak(values, before_value) == MaxOf(values, before_value)

\* MetricsCollector.compare_metrics; analysis has one entry per metric family
\* present in both before and after
compare_metrics(before, during, after) ==
    [before |-> before, during |-> during, after |-> after,
     analysis |->
       [f \in before.keys \cap after.keys |->
          IF f = "cpu" THEN
             [before_percent |-> before.cpu,
              peak_during_percent |-> MaxOf(DuringCpu(during), 0),
              after_percent |-> after.cpu,
              change_during |-> MaxOf(DuringCpu(during), 0) - before.cpu,
              recovery |-> before.cpu - after.cpu,
              recovered |-> CpuRecovered(before.cpu, after.cpu)]
          ELSE IF f = "memory" THEN
             [before_bytes |-> before.mem,
              peak_during_bytes |-> MaxOf(DuringMem(during), 0),
              after_bytes |-> after.mem,
              change_during_bytes |-> MaxOf(DuringMem(during), 0) - before.mem,
              recovery_bytes |-> before.mem - after.mem,
              recovered |-> MemoryRecovered(before.mem, after.mem)]
          ELSE
             LET peak_read ==
                    DiskPeak({d.read_bytes : d \in DuringDisk(during)},
                             before.disk.read_bytes)
                 peak_write ==
                    DiskPeak({d.write_bytes : d \in DuringDisk(during)},
                             before.disk.write_bytes)
                 peak_total ==
                    DiskPeak({d.total_bytes : d \in DuringDisk(during)},
                             before.disk.total_bytes)
             IN
             [before_read_bytes |-> before.disk.read_bytes,
              before_write_bytes |-> before.disk.write_bytes,
              before_total_bytes |-> before.disk.total_bytes,
              peak_read_bytes |-> peak_read,
              peak_write_bytes |-> peak_write,
              peak_total_bytes |-> peak_total,
              after_read_bytes |-> after.disk.read_bytes,
              after_write_bytes |-> after.disk.write_bytes,
              after_total_bytes |-> after.disk.total_bytes,
              read_increase |-> peak_read - before.disk.read_bytes,
              write_increase |-> peak_write - before.disk.write_bytes,
              total_increase |-> peak_total - before.disk.total_bytes]]]

\* ------------------------------------------------------- target catalog
\* Targets as NomadClient.enumerate_targets builds them: a job target has the
\* job's ID, Type and Name, a node target the node's ID and Name.
T_web == [identifier |-> "web-123", kind |-> "service", name |-> "web"]
T_batch == [identifier |-> "web", kind |-> "batch", name |-> "web"]
T_node == [identifier |-> "node-1", kind |-> "node", name |-> "client-01"]

\* the lists NomadClient.enumerate_targets can return: job targets first,
\* node targets after them
JobCatalogs == {<<>>, <<T_web>>, <<T_batch>>, <<T_web, T_batch>>, <<T_batch, T_web>>}
NodeCatalogs == {<<>>, <<T_node>>}
Catalogs == {jc \o nc : jc \in JobCatalogs, nc \in NodeCatalogs}

\* chaos_type.replace("-", "_")
Normalize(chaos_type) == IF chaos_type = "cpu-hog" THEN "cpu_hog" ELSE chaos_type

\* ChaosOrchestrator._suggested_chaos_types for a Nomad target
_suggested_chaos_types(t) ==
    IF t.kind \in {"service", "node"}
    THEN {"host_down", "network_latency", "packet_loss", "cpu_hog", "memory_hog",
          "disk_io", "k6_load_test", "k6_spike_test", "k6_stress_test",
          "k6_quick_stress_test", "k6_quick_spike_test", "k6_api_load_test",
          "k6_database_test"}
    ELSE {"host_down"}

\* ChaosOrchestrator.enumerate_targets: "" is chaos_type None
enumerate_targets(targets, chaos_type) ==
    IF chaos_type # ""
    THEN SelectSeq(targets, LAMBDA t : Normalize(chaos_type) \in
                       {Normalize(ct) : ct \in _suggested_chaos_types(t)})
    ELSE targets

\* candidates by identifier alone
Matches_identifierOnly(x, targets) ==
    {k \in 1..Len(targets) : targets[k].identifier = x}

\* candidates of _select_target for target_id x
Matches(x, targets) ==
    {k \in 1..Len(targets) : targets[k].identifier = x \/ targets[k].name = x}

First(S) == CHOOSE k \in S : \A j \in S : k <= j

\* a _select_target that falls back to the first entry for an unknown id
_select_target_fallback(target_id, targets) ==
    IF target_id # ""
    THEN IF Matches(target_id, targets) # {}
         THEN [raise |-> FALSE, target |-> <<targets[First(Matches(target_id, targets))]>>]
         ELSE [raise |-> FALSE, target |-> IF targets # <<>> THEN <<targets[1]>> ELSE <<>>]
    ELSE [raise |-> FALSE, target |-> IF targets # <<>> THEN <<targets[1]>> ELSE <<>>]

\* ChaosOrchestrator._select_target; target <<>> is None
_select_target(target_id, targets) ==
    IF target_id # ""
    THEN IF Matches(target_id, targets) # {}
         THEN [raise |-> FALSE, target |-> <<targets[First(Matches(target_id, targets))]>>]
         ELSE [raise |-> TRUE, target |-> <<>>]
    ELSE [raise |-> FALSE, target |-> IF targets # <<>> THEN <<targets[1]>> ELSE <<>>]

\* fan-out candidates that also count a name-attribute match
Candidates_byName(x, targets) ==
    {k \in 1..Len(targets) : targets[k].identifier = x \/ targets[k].name = x}

\* candidates of _select_multiple_targets for one listed identifier x
Candidates(x, targets) ==
    {k \in 1..Len(targets) : targets[k].identifier = x}

\* ChaosOrchestrator._select_multiple_targets
RECURSIVE _select_multiple_targets(_, _)
_select_multiple_targets(target_ids, targets) ==
    IF target_ids = <<>> THEN <<>>
    ELSE LET found == Candidates(Head(target_ids), targets)
         IN  (IF found = {} THEN <<>> ELSE <<targets[First(found)]>>)
               \o _select_multiple_targets(Tail(target_ids), targets)

\* the collector _collect_target_metrics uses for a target ("" : none)
TargetCollector(t, prometheus) ==
    IF t.kind = "node" /\ prometheus THEN "prometheus"
    ELSE IF t.kind \in {"allocation", "job", "node"} THEN t.kind
    ELSE ""

\* a _collect_target_metrics that reads a service target through the
\* allocation collector
_collect_target_metrics_serviceAllocation(t, prometheus, client, lbl, r) ==
    IF t.kind = "node" /\ prometheus
    THEN <<[prometheus_collect_node_metrics(r) EXCEPT !.label = <<lbl>>]>>
    ELSE IF t.kind \in {"allocation", "service"}
         THEN <<collect_nomad_allocation_metrics(client, <<lbl>>, r)>>
    ELSE IF t.kind = "job" THEN <<collect_nomad_job_metrics(client, <<lbl>>, r)>>
    ELSE IF t.kind = "node" THEN <<collect_node_metrics(client, <<lbl>>, r)>>
    ELSE <<>>

\* ChaosOrchestrator._collect_target_metrics; <<>> is None.  Targets of the
\* Nomad catalog have no "allocation_id" attribute.
_collect_target_metrics(t, prometheus, client, lbl, r) ==
    IF t.kind = "node" /\ prometheus
    THEN <<[prometheus_collect_node_metrics(r) EXCEPT !.label = <<lbl>>]>>
    ELSE IF t.kind = "allocation" THEN <<collect_nomad_allocation_metrics(client, <<lbl>>, r)>>
    ELSE IF t.kind = "job" THEN <<collect_nomad_job_metrics(client, <<lbl>>, r)>>
    ELSE IF t.kind = "node" THEN <<collect_node_metrics(client, <<lbl>>, r)>>
    ELSE <<>>

\* `collect_metrics and not dry_run and target`
MetricsEnabled(req, tgt) == req.collect_metrics /\ ~req.dry_run /\ tgt # <<>>

\* a trigger guard that forgets dry_run
EngineInvoked_ignoringDryRun(dry_run, engine) == engine

\* _execute_experiment_document calls the engine unless
\* `dry_run or run_experiment is None`
EngineInvoked(dry_run, engine) == ~(dry_run \/ ~engine)

\* status = "dry-run" if dry_run else output.get("status", "completed");
\* an output without "status" key has status ""
RunStatus(dry_run, out) ==
    IF dry_run THEN "dry-run" ELSE IF out.status = "" THEN "completed" ELSE out.status

\* a fan-out that hands back the last result
FanOutResult_last(rs) == rs[Len(rs)]

\* `return results[0]`
FanOutResult(rs) == rs[1]

\* `if before_metrics and after_metrics:` both are non-empty dicts
CompareGuard(before, after) == before # <<>> /\ after # <<>>

\* ------------------------------------------------------------- variables
VARIABLES
    \* --- sampler (collect_continuous_metrics / the Prometheus node loop)
    s_pc,               \* "idle", "loop", "sleep", "done"
    s_loop,             \* "continuous" or "prometheus"
    target_type,        \* target_type argument
    duration_seconds,   \* duration_seconds / metrics_duration
    interval_seconds,   \* interval_seconds / metrics_interval
    label,              \* label argument (the snapshot label prefix)
    i,                  \* loop variable of `for i in range(iterations)`
    snapshots,          \* the list being built
    sleeps,             \* number of time.sleep calls made by this call
    readings,           \* what the backend did in each iteration so far
    \* --- collector state
    nomad_client,       \* MetricsCollector.nomad_client is not None
    metrics_history,    \* MetricsCollector.metrics_history
    \* --- allocation index (NomadClient.enumerate_targets)
    r_pc,               \* position inside NomadClient.enumerate_targets
    nomad_jobs,         \* the scheduler's job list
    nomad_allocations,  \* the scheduler's allocation list
    nomad_nodes,        \* the scheduler's client nodes
    fetch_failed,       \* which of the three list requests raised
    services,           \* what discover_services returned
    allocations,        \* the allocation list (what list_allocations returned)
    alloc_pos,          \* number of list entries processed
    allocation_index,   \* dict: job id -> allocation
    target_list,        \* `targets`, the list enumerate_targets builds
    \* --- pipeline (ChaosOrchestrator)
    pc,                 \* position of the thread inside run_experiment
    prometheus_metrics, \* self._prometheus_metrics is not None
    chaoslib,           \* module-level run_experiment is not None
    all_targets,        \* what NomadClient.enumerate_targets returns
    request,            \* the arguments of the run_experiment call
    todo,               \* selected targets whose pipeline has not started
    target,             \* target of the running pipeline (<<>> is None)
    run_id,             \* run id of the running pipeline
    experiment_doc,     \* <<>> before rendering
    before_metrics,     \* <<>> is None
    during_metrics,
    after_metrics,      \* <<>> is None
    metrics_comparison, \* <<>> is None
    output,             \* trigger result (<<>> before the trigger)
    results,            \* ExperimentRun records of the finished pipelines
    returned,           \* <<>> or <<the ExperimentRun handed to the caller>>
    raised,             \* "" or the phase whose exception reached the caller
    reports,            \* the reports directory: file name -> content
    log,                \* phases executed so far, in order
    \* --- callers of MetricsCollector.compare_metrics
    cmp_before,         \* the caller's before snapshot
    cmp_during,         \* the caller's list of during snapshots
    cmp_after,          \* the caller's after snapshot
    cmp_outputs,        \* what the compare_metrics calls made so far returned
    \* --- callers of NomadClient.drain_node / recover_node
    no_pc,              \* "idle", or the request the running call posts next
    no_stub,            \* _should_use_stub()
    no_node,            \* node_id argument of the running call
    no_posts,           \* the requests.post calls made so far, with their outcome
    no_returns,         \* what the finished calls returned
    \* --- CacheManager and its Redis server
    c_pc,               \* "new" before __init__, "ready" after it
    c_enabled,          \* CacheManager._enabled
    c_client,           \* CacheManager._client is not None
    c_unreachable,      \* Redis could not be reached at construction
    c_ops,              \* number of operations called so far
    c_last,             \* the last operation and what it returned
    redis_up,           \* the Redis server answers
    redis_keys,         \* the keys the Redis server holds
    \* --- web app: the Dora status updater and the threads that touch it
    u_initialised,      \* _dora_updater_initialised
    u_running,          \* _dora_updater_running
    u_thread,           \* _dora_updater_thread (0 : None)
    u_threads,          \* position of every updater thread in updater()
    u_callers,          \* position of every request-handler thread
    u_calls,            \* calls begun so far
    u_refreshes,        \* refreshes every updater thread has completed
    u_stopped           \* the threads a finished _stop call has stopped

samplerVars == <<s_pc, s_loop, target_type, duration_seconds, interval_seconds,
                 label, i, snapshots, sleeps, readings>>
collectorVars == <<nomad_client, metrics_history>>
schedulerVars == <<nomad_jobs, nomad_allocations, nomad_nodes>>
resolverVars == <<r_pc, schedulerVars, fetch_failed, services, allocations, alloc_pos,
                  allocation_index, target_list>>
envVars == <<prometheus_metrics, chaoslib, all_targets>>
runVars == <<todo, target, run_id, experiment_doc, before_metrics,
             after_metrics, metrics_comparison, output, results, returned,
             raised, reports, log>>
runVars_but_log == <<todo, target, run_id, experiment_doc, before_metrics,
                     after_metrics, metrics_comparison, output, results, returned,
                     raised, reports>>
pipeVars == <<pc, request, during_metrics, runVars>>
compareVars == <<cmp_before, cmp_during, cmp_after, cmp_outputs>>
nodeOpVars == <<no_pc, no_stub, no_node, no_posts, no_returns>>
cacheVars == <<c_pc, c_enabled, c_client, c_unreachable, c_ops, c_last, redis_up,
               redis_keys>>
updaterVars == <<u_initialised, u_running, u_thread, u_threads, u_callers, u_calls,
                 u_refreshes, u_stopped>>
libVars == <<compareVars, nodeOpVars, cacheVars, updaterVars>>
vars == <<samplerVars, collectorVars, resolverVars, libVars, envVars, pipeVars>>

\* ------------------------------------------------------- sampler actions
\* (duration, interval) pairs whose sampling call has at most n iterations
SamplingArgs(maxDuration, n) ==
    {da \in (1..maxDuration) \X (1..MaxInterval) : Iterations(da[1], da[2]) <= n}

LabelPrefixes == {"during"}

\* the snapshot taken in iteration k of the running sampling call
LoopSnapshot(k, r) ==
    IF s_loop = "prometheus" THEN PrometheusLoopSnapshot(k, r)
    ELSE ContinuousSnapshot(target_type, nomad_client, label, k, r)

\* which collector iteration k calls ("" : none)
LoopCollector ==
    IF s_loop = "prometheus" THEN "prometheus"
    ELSE IF target_type \in {"allocation", "job", "node"} THEN target_type
    ELSE ""

\* entry of a sampling call: snapshots = [], the loop starts at i = 0
StartSampling(loop, ttype, duration, interval, prefix) ==
    /\ s_pc' = "loop"
    /\ s_loop' = loop
    /\ target_type' = ttype
    /\ duration_seconds' = duration
    /\ interval_seconds' = interval
    /\ label' = prefix
    /\ i' = 0
    /\ snapshots' = <<>>
    /\ sleeps' = 0
    /\ readings' = <<>>

\* a caller invokes collect_continuous_metrics, or the Prometheus node loop
\* is entered, with arguments of its choice
SampleCall ==
    /\ pc = "none"
    /\ s_pc = "idle"
    /\ \E loop \in {"continuous", "prometheus"}, ttype \in TargetTypes,
          da \in SamplingArgs(MaxDuration, MaxIterations), prefix \in LabelPrefixes :
          /\ loop = "prometheus" => ttype = "node" /\ prefix = "during"
          /\ StartSampling(loop, ttype, da[1], da[2], prefix)
    /\ UNCHANGED <<collectorVars, resolverVars, libVars, envVars, pipeVars>>

\* one loop iteration up to the sleep: collect, label, append
SamplerCollect ==
    /\ s_pc = "loop"
    /\ i < Iterations(duration_seconds, interval_seconds)
    /\ \E r \in Readings(LoopCollector, nomad_client,
                         IF pc = "sampling" THEN PipelineValues ELSE Values) :
          LET snap == LoopSnapshot(i, r) IN
          /\ snapshots' = Append(snapshots, snap)
          /\ readings' = Append(readings, r)
          /\ metrics_history' =
                HistoryAfter(metrics_history, LoopCollector, nomad_client, r, snap)
    /\ IF ShouldSleep(i, Iterations(duration_seconds, interval_seconds))
          THEN s_pc' = "sleep" /\ i' = i
          ELSE s_pc' = "loop" /\ i' = i + 1
    /\ UNCHANGED <<s_loop, target_type, duration_seconds, interval_seconds, label,
                   sleeps, nomad_client, resolverVars, libVars, envVars, pipeVars>>

\* time.sleep(interval_seconds), then the next iteration
SamplerSleep ==
    /\ s_pc = "sleep"
    /\ sleeps' = sleeps + 1
    /\ i' = i + 1
    /\ s_pc' = "loop"
    /\ UNCHANGED <<s_loop, target_type, duration_seconds, interval_seconds, label,
                   snapshots, readings, collectorVars, resolverVars, libVars, envVars, pipeVars>>

\* range(iterations) is exhausted: the list is returned.  Inside a pipeline
\* run it becomes during_metrics, the sampler's locals are gone and
\* PostCapture is next.
SamplerReturn ==
    /\ s_pc = "loop"
    /\ i >= Iterations(duration_seconds, interval_seconds)
    /\ IF pc = "sampling"
          THEN /\ pc' = "post"
               /\ during_metrics' = snapshots
               /\ s_pc' = "idle" /\ s_loop' = "continuous" /\ target_type' = "node"
               /\ duration_seconds' = 1 /\ interval_seconds' = 1 /\ label' = "during"
               /\ i' = 0 /\ snapshots' = <<>> /\ sleeps' = 0 /\ readings' = <<>>
          ELSE /\ s_pc' = "done"
               /\ UNCHANGED <<pc, during_metrics, s_loop, target_type, duration_seconds,
                              interval_seconds, label, i, snapshots, sleeps, readings>>
    /\ UNCHANGED <<collectorVars, resolverVars, libVars, envVars, request, runVars>>

\* ------------------------------------------------- shared initial values
SamplerIdle ==
    /\ s_pc = "idle" /\ s_loop = "continuous" /\ target_type = "node"
    /\ duration_seconds = 1 /\ interval_seconds = 1 /\ label = "during"
    /\ i = 0 /\ snapshots = <<>> /\ sleeps = 0 /\ readings = <<>>

ResolverIdle ==
    /\ r_pc = "idle"
    /\ nomad_jobs = <<>> /\ nomad_allocations = <<>> /\ nomad_nodes = <<>>
    /\ fetch_failed = {} /\ services = <<>> /\ target_list = <<>>
    /\ allocations = <<>> /\ alloc_pos = 0 /\ allocation_index = <<>>

NoRequest ==
    [target_id |-> <<>>, chaos_type |-> "", dry_run |-> TRUE,
     collect_metrics |-> FALSE, metrics_duration |-> 1, metrics_interval |-> 1]

\* no compare_metrics caller
CompareIdle ==
    /\ cmp_before = ErrorSnapshot(NoLabel, NoError)
    /\ cmp_during = <<>>
    /\ cmp_after = ErrorSnapshot(NoLabel, NoError)
    /\ cmp_outputs = <<>>

\* no drain_node / recover_node caller
NodeOpsIdle ==
    /\ no_pc = "idle" /\ no_stub = TRUE /\ no_node = ""
    /\ no_posts = <<>> /\ no_returns = <<>>

\* no operation of a cache yet
NoCacheOp == [op |-> "", ret |-> "", count |-> 0, raised |-> FALSE]

\* no CacheManager
CacheIdle ==
    /\ c_pc = "new" /\ c_enabled = FALSE /\ c_client = FALSE
    /\ c_unreachable = FALSE /\ c_ops = 0 /\ c_last = NoCacheOp
    /\ redis_up = FALSE /\ redis_keys = {}

\* the web app module as imported: no updater thread, no request yet
UpdaterIdle ==
    /\ u_initialised = FALSE /\ u_running = FALSE /\ u_thread = 0
    /\ u_threads = <<>> /\ u_callers = <<>> /\ u_calls = 0 /\ u_refreshes = <<>>
    /\ u_stopped = {}

LibIdle == CompareIdle /\ NodeOpsIdle /\ CacheIdle /\ UpdaterIdle

PipelineAbsent ==
    /\ pc = "none" /\ prometheus_metrics = FALSE /\ chaoslib = FALSE
    /\ all_targets = <<>> /\ request = NoRequest /\ todo = <<>>
    /\ target = <<>> /\ run_id = 0 /\ experiment_doc = <<>>
    /\ before_metrics = <<>> /\ during_metrics = <<>> /\ after_metrics = <<>>
    /\ metrics_comparison = <<>> /\ output = <<>> /\ results = <<>>
    /\ returned = <<>> /\ raised = "" /\ reports = <<>> /\ log = <<>>

\* -------------------------------------------------- specification: sampler
InitSampler ==
    /\ SamplerIdle
    /\ LibIdle
    /\ nomad_client \in BOOLEAN
    /\ metrics_history = <<>>
    /\ ResolverIdle
    /\ PipelineAbsent

NextSampler == SampleCall \/ SamplerCollect \/ SamplerSleep \/ SamplerReturn

SpecSampler == InitSampler /\ [][NextSampler]_vars

\* ------------------------------------------------------ pipeline actions
\* run ids: uuid4().hex[:8] draws one of finitely many values
NumRunIds == 2
RunIds == 1..NumRunIds

\* The draws explored: an id that already names a file in the reports
\* directory, or the smallest id that does not (the ids are interchangeable,
\* so every other unused id gives the same behaviour up to renaming).
UsedRunIds(dir) == {id \in RunIds : \E ext \in {"json", "md", "html"} : <<id, ext>> \in DOMAIN dir}
RunIdDraws(dir) ==
    UsedRunIds(dir) \cup
      {id \in RunIds \ UsedRunIds(dir) : \A other \in RunIds \ UsedRunIds(dir) : id <= other}

\* metrics_interval values of the pipeline calls explored; with 0 the
\* sampler's `metrics_duration // metrics_interval` raises ZeroDivisionError
PipelineIntervals == {0, 1, 2}

\* a pipeline that invokes the disruption action before the baseline capture
StatementOrder_triggerFirst == <<"render", "trigger", "baseline", "sample">>

\* the first blocks of _run_single_experiment in statement order: rendering,
\* baseline capture, trigger, during block
StatementOrder == <<"render", "baseline", "trigger", "sample">>

\* the block that follows block `at`
After(at) ==
    StatementOrder[(CHOOSE k \in 1..Len(StatementOrder) : StatementOrder[k] = at) + 1]

\* target_id argument as the list of its comma-separated parts: <<>> is
\* None, one part is a plain identifier, two parts "x,y"
TargetIdParts == {"web", "node-1", "zzz"}
TargetIdArgs ==
    {<<>>} \cup {<<x>> : x \in TargetIdParts}
           \cup {<<x, y>> : x \in TargetIdParts, y \in TargetIdParts}

ChaosTypes == {"", "cpu-hog"}

\* the calls explored; a call that collects no metrics never reads its
\* duration and interval, which are then kept at 1; a fan-out over a target
\* list is explored with one sample per target
Requests ==
    {req \in
       {[target_id |-> tid, chaos_type |-> ct, dry_run |-> dr, collect_metrics |-> cm,
         metrics_duration |-> da[1], metrics_interval |-> da[2]] :
           tid \in TargetIdArgs, ct \in ChaosTypes, dr \in BOOLEAN, cm \in BOOLEAN,
           da \in (1..MaxPipelineDuration) \X PipelineIntervals} :
       (req.dry_run \/ ~req.collect_metrics \/ Len(req.target_id) >= 2) =>
           (req.metrics_duration = 1 /\ req.metrics_interval = 1)}

\* what chaoslib's run_experiment hands back: a journal with this status
JournalStatuses == {"completed", "failed"}

\* index of the running pipeline within the call
RunIndex == Len(results) + 1

Event(phase) == [run |-> RunIndex, phase |-> phase]

\* an exception leaves run_experiment: nothing below the raising statement
\* runs
Raise(phase) ==
    /\ pc' = "raised"
    /\ raised' = phase

\* a run record that names a missing target "unknown", as the document does
ExperimentRun_unknownTarget(id, tgt, status, dry_run) ==
    [run_id |-> id,
     target_id |-> IF tgt = <<>> THEN <<"unknown">> ELSE <<tgt[1].identifier>>,
     status |-> status,
     dry_run |-> dry_run]

\* ExperimentRun(run_id=.., target_id=target.identifier if target else None,
\* status=.., metadata={"dry_run": ..}); target_id <<>> is None
ExperimentRun(id, tgt, status, dry_run) ==
    [run_id |-> id,
     target_id |-> IF tgt = <<>> THEN <<>> ELSE <<tgt[1].identifier>>,
     status |-> status,
     dry_run |-> dry_run]

WriteFile(dir, id, ext, content) == (<<id, ext>> :> content) @@ dir

\* report_data of _write_run_artifacts: "metrics" is present iff
\* `if metrics_comparison:` holds
ReportData(doc, out, comparison) ==
    [experiment |-> doc, result |-> out,
     metrics |-> IF comparison # <<>> THEN <<comparison[1].analysis>> ELSE <<>>]

\* run_experiment up to the first _run_single_experiment call: catalog,
\* selection of the target(s)
RunExperiment ==
    /\ pc = "idle"
    /\ \E req \in Requests :
         LET targets == enumerate_targets(all_targets, req.chaos_type)
             multi == _select_multiple_targets(req.target_id, targets)
             single == _select_target(IF req.target_id = <<>> THEN "" ELSE req.target_id[1],
                                      targets)
         IN
         /\ request' = req
         /\ IF Len(req.target_id) >= 2
               THEN IF multi = <<>>
                       THEN Raise("Resolving") /\ todo' = <<>>
                       ELSE /\ todo' = [k \in 1..Len(multi) |-> <<multi[k]>>]
                            /\ pc' = "render" /\ raised' = raised
               ELSE IF single.raise
                       THEN Raise("Resolving") /\ todo' = <<>>
                       ELSE /\ todo' = <<single.target>>
                            /\ pc' = "render" /\ raised' = raised
    /\ log' = Append(log, [run |-> 0, phase |-> "Resolving"])
    /\ UNCHANGED <<samplerVars, collectorVars, resolverVars, libVars, envVars, during_metrics,
                   target, run_id, experiment_doc, before_metrics, after_metrics,
                   metrics_comparison, output, results, returned, reports>>

\* _run_single_experiment entry: run id, template rendering (the template
\* file may be missing), metric locals reset
Rendering ==
    /\ pc = "render"
    /\ target' = Head(todo)
    /\ todo' = Tail(todo)
    /\ \E id \in RunIdDraws(reports) : run_id' = id
    /\ before_metrics' = <<>>
    /\ during_metrics' = <<>>
    /\ after_metrics' = <<>>
    /\ metrics_comparison' = <<>>
    /\ output' = <<>>
    /\ \E exists \in BOOLEAN :
         IF exists
         THEN /\ experiment_doc' =
                    <<[chaos_type |-> request.chaos_type,
                       target_id |-> IF Head(todo) = <<>> THEN "unknown"
                                     ELSE Head(todo)[1].identifier]>>
              /\ log' = Append(log, Event("Rendering"))
              /\ pc' = After("render") /\ raised' = raised
         ELSE /\ experiment_doc' = <<>>
              /\ log' = log
              /\ Raise("Rendering")
    /\ UNCHANGED <<samplerVars, collectorVars, resolverVars, libVars, envVars, request,
                   results, returned, reports>>

\* `before_metrics = self._collect_target_metrics(target, label="before")`
BaselineCapture ==
    /\ pc = "baseline"
    /\ IF MetricsEnabled(request, target)
          THEN \E r \in Readings(TargetCollector(target[1], prometheus_metrics),
                                 nomad_client, PipelineValues) :
                 LET snap == _collect_target_metrics(target[1], prometheus_metrics,
                                                     nomad_client, "before", r)
                 IN /\ before_metrics' = snap
                    /\ metrics_history' =
                         IF snap = <<>> THEN metrics_history
                         ELSE HistoryAfter(metrics_history,
                                           TargetCollector(target[1], prometheus_metrics),
                                           nomad_client, r, snap[1])
                    /\ log' = Append(log, Event("BaselineCapture"))
          ELSE UNCHANGED <<before_metrics, metrics_history, log>>
    /\ pc' = After("baseline")
    /\ UNCHANGED <<samplerVars, nomad_client, resolverVars, libVars, envVars, request,
                   during_metrics, todo, target, run_id, experiment_doc, after_metrics,
                   metrics_comparison, output, results, returned, raised, reports>>

\* `output = self._execute_experiment_document(experiment_doc, dry_run)`:
\* the engine returns its journal or raises
Triggering ==
    /\ pc = "trigger"
    /\ IF EngineInvoked(request.dry_run, chaoslib)
          THEN /\ log' = Append(log, Event("Triggering"))
               /\ \/ \E st \in JournalStatuses :
                        /\ output' = <<[status |-> st]>>
                        /\ pc' = After("trigger") /\ raised' = raised
                  \/ /\ output' = output
                     /\ Raise("Triggering")
          ELSE /\ output' = <<[status |-> "skipped"]>>
               /\ log' = log
               /\ pc' = After("trigger") /\ raised' = raised
    /\ UNCHANGED <<samplerVars, collectorVars, resolverVars, libVars, envVars, request,
                   during_metrics, todo, target, run_id, experiment_doc, before_metrics,
                   after_metrics, metrics_comparison, results, returned, reports>>

\* the during block: the Prometheus node loop for a node target when the
\* Prometheus collector exists, collect_continuous_metrics otherwise; both
\* begin with `iterations = duration // interval`, which raises for interval 0
Sampling ==
    /\ pc = "sample"
    /\ IF MetricsEnabled(request, target)
          THEN /\ log' = Append(log, Event("Sampling"))
               /\ IF request.metrics_interval = 0
                     THEN /\ Raise("Sampling")
                          /\ UNCHANGED samplerVars
                     ELSE /\ StartSampling(IF target[1].kind = "node" /\ prometheus_metrics
                                              THEN "prometheus" ELSE "continuous",
                                           target[1].kind, request.metrics_duration,
                                           request.metrics_interval, "during")
                          /\ pc' = "sampling" /\ raised' = raised
          ELSE /\ UNCHANGED <<samplerVars, log, raised>>
               /\ pc' = "post"
    /\ UNCHANGED <<collectorVars, resolverVars, libVars, envVars, request, during_metrics,
                   todo, target, run_id, experiment_doc, before_metrics, after_metrics,
                   metrics_comparison, output, results, returned, reports>>

\* `after_metrics = self._collect_target_metrics(target, label="after")`
PostCapture ==
    /\ pc = "post"
    /\ IF MetricsEnabled(request, target)
          THEN \E r \in Readings(TargetCollector(target[1], prometheus_metrics),
                                 nomad_client, PipelineValues) :
                 LET snap == _collect_target_metrics(target[1], prometheus_metrics,
                                                     nomad_client, "after", r)
                 IN /\ after_metrics' = snap
                    /\ metrics_history' =
                         IF snap = <<>> THEN metrics_history
                         ELSE HistoryAfter(metrics_history,
                                           TargetCollector(target[1], prometheus_metrics),
                                           nomad_client, r, snap[1])
                    /\ log' = Append(log, Event("PostCapture"))
                    /\ pc' = "compare"
          ELSE /\ UNCHANGED <<after_metrics, metrics_history, log>>
               /\ pc' = "persist_json"
    /\ UNCHANGED <<samplerVars, nomad_client, resolverVars, libVars, envVars, request,
                   during_metrics, todo, target, run_id, experiment_doc, before_metrics,
                   metrics_comparison, output, results, returned, raised, reports>>

\* `if before_metrics and after_metrics: metrics_comparison = compare_metrics(..)`
Comparing ==
    /\ pc = "compare"
    /\ IF CompareGuard(before_metrics, after_metrics)
          THEN /\ metrics_comparison' =
                     <<compare_metrics(before_metrics[1], during_metrics, after_metrics[1])>>
               /\ log' = Append(log, Event("Comparing"))
          ELSE UNCHANGED <<metrics_comparison, log>>
    /\ pc' = "persist_json"
    /\ UNCHANGED <<samplerVars, collectorVars, resolverVars, libVars, envVars, request,
                   during_metrics, todo, target, run_id, experiment_doc, before_metrics,
                   after_metrics, output, results, returned, raised, reports>>

\* one write_text of _write_run_artifacts: the file is written or the write
\* raises
PersistFile(at, ext, next) ==
    /\ pc = at
    /\ \E ok \in BOOLEAN :
         IF ok
         THEN /\ reports' = WriteFile(reports, run_id, ext,
                                      ReportData(experiment_doc[1], output[1],
                                                 metrics_comparison))
              /\ pc' = next /\ raised' = raised
         ELSE /\ reports' = reports
              /\ Raise("Persisting")

\* metadata_path.write_text(json.dumps(report_data))
PersistJson ==
    /\ PersistFile("persist_json", "json", "persist_md")
    /\ log' = Append(log, Event("Persisting"))
    /\ UNCHANGED <<samplerVars, collectorVars, resolverVars, libVars, envVars, request,
                   during_metrics, todo, target, run_id, experiment_doc, before_metrics,
                   after_metrics, metrics_comparison, output, results, returned>>

\* markdown_path.write_text(_render_markdown_summary(..))
PersistMarkdown ==
    /\ PersistFile("persist_md", "md", "persist_html")
    /\ UNCHANGED <<samplerVars, collectorVars, resolverVars, libVars, envVars, request,
                   during_metrics, todo, target, run_id, experiment_doc, before_metrics,
                   after_metrics, metrics_comparison, output, results, returned, log>>

\* html_path.write_text(html_content); the ExperimentRun record is built and
\* returned by _run_single_experiment, whose locals are gone; the fan-out
\* loop appends the record and goes on with the next target
PersistHtml ==
    /\ PersistFile("persist_html", "html", IF todo # <<>> THEN "render" ELSE "return")
    /\ results' =
         IF pc' = "raised" THEN results
         ELSE Append(results,
                     ExperimentRun(run_id, target,
                                   RunStatus(request.dry_run, output[1]),
                                   request.dry_run))
    /\ log' = IF pc' = "raised" THEN log ELSE Append(log, Event("Done"))
    /\ IF pc' = "raised"
          THEN UNCHANGED <<during_metrics, target, run_id, experiment_doc,
                           before_metrics, after_metrics, metrics_comparison, output>>
          ELSE /\ target' = <<>> /\ run_id' = 0 /\ experiment_doc' = <<>>
               /\ before_metrics' = <<>> /\ during_metrics' = <<>>
               /\ after_metrics' = <<>> /\ metrics_comparison' = <<>>
               /\ output' = <<>>
    /\ UNCHANGED <<samplerVars, collectorVars, resolverVars, libVars, envVars, request,
                   todo, returned>>

\* `return results[0]` (fan-out) / `return self._run_single_experiment(..)`
ReturnToCaller ==
    /\ pc = "return"
    /\ returned' = <<FanOutResult(results)>>
    /\ pc' = "returned"
    /\ UNCHANGED <<samplerVars, collectorVars, resolverVars, libVars, envVars, request,
                   during_metrics, todo, target, run_id, experiment_doc, before_metrics,
                   after_metrics, metrics_comparison, output, results, raised, reports,
                   log>>

\* ------------------------------------------------ specification: pipeline
\* state after ChaosOrchestrator.__init__: which optional collaborators
\* exist, an empty reports directory, no call made yet
Init ==
    /\ SamplerIdle
    /\ ResolverIdle
    /\ LibIdle
    /\ nomad_client \in BOOLEAN
    /\ metrics_history = <<>>
    /\ prometheus_metrics \in BOOLEAN
    /\ chaoslib \in BOOLEAN
    /\ all_targets \in Catalogs
    /\ pc = "idle"
    /\ request = NoRequest
    /\ todo = <<>> /\ target = <<>> /\ run_id = 0 /\ experiment_doc = <<>>
    /\ before_metrics = <<>> /\ during_metrics = <<>> /\ after_metrics = <<>>
    /\ metrics_comparison = <<>> /\ output = <<>> /\ results = <<>>
    /\ returned = <<>> /\ raised = "" /\ reports = <<>> /\ log = <<>>

Next ==
    \/ RunExperiment
    \/ Rendering
    \/ BaselineCapture
    \/ Triggering
    \/ Sampling
    \/ SamplerCollect
    \/ SamplerSleep
    \/ SamplerReturn
    \/ PostCapture
    \/ Comparing
    \/ PersistJson
    \/ PersistMarkdown
    \/ PersistHtml
    \/ ReturnToCaller

Spec == Init /\ [][Next]_vars

\* --------------------------------------------------- pipeline properties
\* the catalog the call selects from, and the targets a list selects
Catalog == enumerate_targets(all_targets, request.chaos_type)
Selected == _select_multiple_targets(request.target_id, Catalog)

Called == pc # "idle"
IsFanOut == Len(request.target_id) >= 2
Phases(k) == {log[j].phase : j \in {n \in 1..Len(log) : log[n].run = k}}
HasFile(id, ext) == <<id, ext>> \in DOMAIN reports

\* C4 (as claimed): the bundle a run has just written has a metrics entry,
\* and the comparison was computed, only if the baseline and the post snapshot
\* both exist and neither carries an error.
C4_ComparingGuard ==
    pc = "persist_md" =>
        ((metrics_comparison # <<>> \/ reports[<<run_id, "json">>].metrics # <<>>) =>
            /\ before_metrics # <<>> /\ after_metrics # <<>>
            /\ before_metrics[1].error = NoError
            /\ after_metrics[1].error = NoError)

\* C5 (as claimed): a failing trigger call never ends the run: no exception
\* of the trigger reaches the caller, and a run whose trigger reported
\* "failed" has sampled (when metrics are enabled) and writes that status
\* into its bundle.
C5_TriggerErrorsRecorded ==
    /\ raised # "Triggering"
    /\ (pc = "persist_md" /\ ~request.dry_run /\ output[1].status = "failed") =>
          /\ reports[<<run_id, "json">>].result.status = "failed"
          /\ MetricsEnabled(request, target) =>
                {"Sampling", "PostCapture"} \subseteq Phases(RunIndex)

\* C6: when a target identifier is given and no catalog entry matches it (by
\* identifier or by name), the call fails in Resolving: the caller gets an
\* exception and no result, no document is rendered, no snapshot is taken,
\* the trigger is not invoked, no file is written.
C6_ResolutionErrorsFatal ==
    (/\ Called
     /\ request.target_id # <<>>
     /\ \A n \in 1..Len(request.target_id) : Matches(request.target_id[n], Catalog) = {})
    => /\ pc = "raised" /\ raised = "Resolving"
       /\ returned = <<>> /\ results = <<>>
       /\ log = <<[run |-> 0, phase |-> "Resolving"]>>
       /\ experiment_doc = <<>> /\ output = <<>>
       /\ before_metrics = <<>> /\ during_metrics = <<>> /\ after_metrics = <<>>
       /\ s_pc = "idle" /\ metrics_history = <<>>
       /\ reports = <<>>

\* witness of C6: an unknown identifier was given against a non-empty
\* catalog and the call has failed
C6_Witness ==
    /\ pc = "raised" /\ raised = "Resolving"
    /\ request.target_id = <<"zzz">> /\ Catalog # <<>>

\* C8: a fan-out runs its targets one after the other (whenever a phase of
\* target k+1 is executed, target k's artifacts are all written), and a
\* fan-out that returns has run and persisted one pipeline per selected
\* target, in list order, and hands back the run of the first target.
C8_FanOutSequential ==
    /\ (log # <<>> /\ log[Len(log)].run >= 2) =>
          \E n \in 1..(Len(log) - 1) :
             log[n] = [run |-> log[Len(log)].run - 1, phase |-> "Done"]
    /\ (pc = "returned" /\ IsFanOut) =>
          /\ Len(results) = Len(Selected)
          /\ \A k \in 1..Len(results) :
                /\ results[k].target_id = <<Selected[k].identifier>>
                /\ {"Rendering", "Persisting", "Done"} \subseteq Phases(k)
                /\ Cardinality({j \in 1..Len(log) :
                                   log[j] = [run |-> k, phase |-> "Persisting"]}) = 1
                /\ \A ext \in {"json", "md", "html"} : HasFile(results[k].run_id, ext)
          /\ returned = <<results[1]>>

\* witness of C8: a fan-out over two different targets has returned
C8_Witness ==
    /\ pc = "returned" /\ IsFanOut /\ Len(results) = 2
    /\ results[1].target_id # results[2].target_id

\* C9 (as claimed): when the call has ended, normally or with an exception,
\* every run id has all of its artifact files or none.
C9_PersistenceAllOrNothing ==
    pc \in {"raised", "returned"} =>
        \A id \in RunIds :
            \/ \A ext \in {"json", "md", "html"} : HasFile(id, ext)
            \/ \A ext \in {"json", "md", "html"} : ~HasFile(id, ext)

\* C10: a dry run never invokes the disruption action and takes no
\* baseline, during or post snapshot; each of its runs ends with status
\* dry-run, and a dry run that returns has written its JSON artifact.
C10_DryRun ==
    (Called /\ request.dry_run) =>
        /\ \A j \in 1..Len(log) :
              log[j].phase \notin {"BaselineCapture", "Triggering", "Sampling",
                                   "PostCapture", "Comparing"}
        /\ before_metrics = <<>> /\ during_metrics = <<>> /\ after_metrics = <<>>
        /\ s_pc = "idle" /\ metrics_history = <<>>
        /\ output # <<>> => output[1].status = "skipped"
        /\ \A k \in 1..Len(results) : results[k].status = "dry-run"
        /\ pc = "returned" =>
              /\ returned[1].status = "dry-run"
              /\ HasFile(returned[1].run_id, "json")

\* witness of C10: a dry run with the engine installed and metrics requested
\* has returned
C10_Witness ==
    /\ pc = "returned" /\ request.dry_run /\ request.collect_metrics /\ chaoslib
    /\ returned # <<>> /\ returned[1].target_id # <<>>

\* position of a phase in the order Resolving .. Done
PhaseOrder ==
    <<"Resolving", "Rendering", "BaselineCapture", "Triggering", "Sampling",
      "PostCapture", "Comparing", "Persisting", "Done">>
PhaseRank(phase) == CHOOSE k \in 1..Len(PhaseOrder) : PhaseOrder[k] = phase

\* C19: the phases of a run are executed in the order Resolving, Rendering,
\* BaselineCapture, Triggering, Sampling, PostCapture, Comparing, Persisting,
\* Done, each at most once (every executed phase comes later in that order
\* than every phase executed before it in the same run); the disruption
\* action is invoked after the baseline capture and before any during or post
\* snapshot, every during snapshot is taken after the action returned and
\* before the post snapshot, and the post snapshot after the last during
\* snapshot.
C19_PhaseOrder ==
    /\ \A j \in 1..(Len(log) - 1) :
          \/ log[j].run < log[Len(log)].run
          \/ /\ log[j].run = log[Len(log)].run
             /\ PhaseRank(log[j].phase) < PhaseRank(log[Len(log)].phase)
    /\ pc = "trigger" =>
          /\ MetricsEnabled(request, target) => "BaselineCapture" \in Phases(RunIndex)
          /\ s_pc = "idle" /\ during_metrics = <<>> /\ after_metrics = <<>>
    /\ (s_pc # "idle" \/ during_metrics # <<>>) =>
          /\ output # <<>>
          /\ "Sampling" \in Phases(RunIndex)
    /\ s_pc # "idle" => after_metrics = <<>> /\ "PostCapture" \notin Phases(RunIndex)
    /\ (pc # "raised" /\ "PostCapture" \in Phases(RunIndex)) =>
          /\ s_pc = "idle"
          /\ Len(during_metrics) =
                Iterations(request.metrics_duration, request.metrics_interval)

\* witness of C19: a single-target run that went through all nine phases has
\* returned
C19_Witness ==
    /\ pc = "returned" /\ ~IsFanOut
    /\ {log[j].phase : j \in 1..Len(log)} = {PhaseOrder[k] : k \in 1..Len(PhaseOrder)}
    /\ Len(log) = Len(PhaseOrder)

\* C20 (as claimed): when an exception ends a run in a phase after
\* Resolving, the run's artifact has been written all the same.
C20_FailureStillPersists ==
    (pc = "raised" /\ raised \in {"Rendering", "BaselineCapture", "Triggering", "Sampling",
                                  "PostCapture", "Comparing"})
    => HasFile(run_id, "json")

\* ------------------------------------------------- specification: resolver
\* `services = self.discover_services()`: the job request answers or raises
DiscoverServices ==
    /\ pc = "none"
    /\ r_pc = "services"
    /\ \E failed \in BOOLEAN :
          /\ services' = FetchOrStub(failed, nomad_jobs, StubServices)
          /\ fetch_failed' = IF failed THEN fetch_failed \cup {"services"} ELSE fetch_failed
    /\ r_pc' = "allocations"
    /\ UNCHANGED <<schedulerVars, allocations, alloc_pos, allocation_index, target_list,
                   samplerVars, collectorVars, libVars, envVars, pipeVars>>

\* `allocations = self.list_allocations()`: the allocation request answers
\* or raises
ListAllocations ==
    /\ pc = "none"
    /\ r_pc = "allocations"
    /\ \E failed \in BOOLEAN :
          /\ allocations' = FetchOrStub(failed, nomad_allocations, StubAllocations)
          /\ fetch_failed' = IF failed THEN fetch_failed \cup {"allocations"} ELSE fetch_failed
    /\ r_pc' = "index"
    /\ UNCHANGED <<schedulerVars, services, alloc_pos, allocation_index, target_list,
                   samplerVars, collectorVars, libVars, envVars, pipeVars>>

\* the index loop handles the next allocation of the list
IndexStep ==
    /\ pc = "none"
    /\ r_pc = "index"
    /\ alloc_pos < Len(allocations)
    /\ allocation_index' = IndexInsert(allocation_index, allocations[alloc_pos + 1])
    /\ alloc_pos' = alloc_pos + 1
    /\ UNCHANGED <<r_pc, schedulerVars, fetch_failed, services, allocations, target_list,
                   samplerVars, collectorVars, libVars, envVars, pipeVars>>

\* `for service in services: targets.append(Target(..))`
ServiceTargets ==
    /\ pc = "none"
    /\ r_pc = "index"
    /\ alloc_pos = Len(allocations)
    /\ target_list' = [k \in 1..Len(services) |-> ServiceTarget(services[k])]
    /\ r_pc' = "nodes"
    /\ UNCHANGED <<schedulerVars, fetch_failed, services, allocations, alloc_pos,
                   allocation_index, samplerVars, collectorVars, libVars, envVars,
                   pipeVars>>

\* `nodes = self.list_nodes()` and `for node in nodes: targets.append(..)`,
\* then `return targets`
ListNodes ==
    /\ pc = "none"
    /\ r_pc = "nodes"
    /\ \E failed \in BOOLEAN :
          LET nodes == FetchOrStub(failed, nomad_nodes, StubNodes) IN
          /\ target_list' = target_list \o [k \in 1..Len(nodes) |-> NodeTarget(nodes[k])]
          /\ fetch_failed' = IF failed THEN fetch_failed \cup {"nodes"} ELSE fetch_failed
    /\ r_pc' = "done"
    /\ UNCHANGED <<schedulerVars, services, allocations, alloc_pos, allocation_index,
                   samplerVars, collectorVars, libVars, envVars, pipeVars>>

\* a NomadClient with a real client object, about to run enumerate_targets
InitResolver ==
    /\ r_pc = "services"
    /\ nomad_jobs \in JobLists
    /\ nomad_allocations \in AllocationLists
    /\ nomad_nodes \in NodeLists
    /\ fetch_failed = {} /\ services = <<>> /\ target_list = <<>>
    /\ allocations = <<>>
    /\ alloc_pos = 0
    /\ allocation_index = <<>>
    /\ SamplerIdle
    /\ LibIdle
    /\ nomad_client = TRUE
    /\ metrics_history = <<>>
    /\ PipelineAbsent

NextResolver ==
    DiscoverServices \/ ListAllocations \/ IndexStep \/ ServiceTargets \/ ListNodes

SpecResolver == InitResolver /\ [][NextResolver]_vars

\* --------------------------------------------------- resolver properties
\* C3 (as claimed): once the index loop has finished, every job id that has
\* a running allocation in the list is mapped to a running allocation.
C3_IndexPrefersRunning ==
    r_pc \in {"nodes", "done"} =>
        \A k \in 1..Len(allocations) :
            (allocations[k].JobID # "" /\ allocations[k].ClientStatus = "running") =>
                /\ allocations[k].JobID \in DOMAIN allocation_index
                /\ allocation_index[allocations[k].JobID].ClientStatus = "running"

\* C16 (as claimed): a list request that raised counts as an empty list: no
\* service target comes out of a failed job request, no index entry out of a
\* failed allocation request, and the node targets of the scheduler's nodes
\* are returned all the same.
C16_ResolverFallback ==
    r_pc = "done" =>
        /\ "services" \in fetch_failed =>
              \A k \in 1..Len(target_list) : target_list[k].kind = "node"
        /\ "allocations" \in fetch_failed => allocation_index = <<>>
        /\ "nodes" \notin fetch_failed =>
              \A n \in 1..Len(nomad_nodes) :
                 \E k \in 1..Len(target_list) : target_list[k] = NodeTarget(nomad_nodes[n])

\* ---------------------------------------------------- sampler properties
SamplerIterations == Iterations(duration_seconds, interval_seconds)

\* the collector of iteration k returned without a reading: its backend
\* request raised, or no request was made (no Nomad client, no collector
\* for the target type)
CollectorFailed(k) == readings[k].result \in {"fail", "none"}

\* C1 (as claimed): a finished sampling call has returned exactly
\* `iterations` snapshots in iteration order; the snapshot of every iteration
\* whose collector failed carries a non-empty error, and the snapshot of every
\* iteration whose backend answered is that reading, without an error.
C1_SamplerFaultTolerance ==
    s_pc = "done" =>
        /\ Len(snapshots) = SamplerIterations
        /\ \A k \in 1..Len(snapshots) :
              /\ CollectorFailed(k) => snapshots[k].error # NoError
              /\ (~CollectorFailed(k) /\ readings[k].result = "ok") =>
                    /\ snapshots[k].error = NoError
                    /\ snapshots[k].cpu = readings[k].value

\* C2 (as claimed): a finished sampling call has taken duration // interval
\* snapshots and slept iterations - 1 times.
C2_DurationLaw_Original ==
    s_pc = "done" =>
        /\ Len(snapshots) = SamplerIterations
        /\ sleeps = SamplerIterations - 1

\* C2 (amended): a sampling call takes duration // interval snapshots, never
\* sleeps before its first snapshot or after its last one, and has slept once
\* between each two consecutive snapshots: iterations - 1 times when
\* iterations >= 1 and not at all when duration < interval.
C2_DurationLaw ==
    /\ s_pc = "sleep" => sleeps = Len(snapshots) - 1
    /\ (s_pc = "loop" /\ i < SamplerIterations) => sleeps = Len(snapshots)
    /\ s_pc = "done" =>
        /\ Len(snapshots) = SamplerIterations
        /\ sleeps = (IF SamplerIterations = 0 THEN 0 ELSE SamplerIterations - 1)

\* witness of C2: Sample(duration=10, interval=2) has returned 5 snapshots
\* after 4 sleeps
C2_Witness ==
    /\ s_pc = "done" /\ duration_seconds = 10 /\ interval_seconds = 2
    /\ Len(snapshots) = 5 /\ sleeps = 4

\* C7 (as claimed): whenever a backend request of a collector call failed,
\* the snapshot that call returned has its error field set.
C7_CollectorErrorsEmbedded ==
    \A k \in 1..Len(snapshots) :
        readings[k].result # "ok" => snapshots[k].error # NoError

\* ----------------------------------------------- specification: comparison
\* longest during list handed to compare_metrics
MaxDuring == 2
\* compare_metrics calls made on one input triple
MaxCompareCalls == 2

\* which metric families a snapshot handed to compare_metrics carries
CompareKeySets == {{}, {"cpu"}, {"memory", "disk"}, Families}
DuringKeySets == {{}, {"cpu"}, Families}

\* readings <<cpu.percent in tenths, memory.usage, disk>> of the snapshots
BeforeLevels == {<<0, 0, Disk(0, 0, 0)>>, <<200, 1000, Disk(100, 40, 140)>>}
AfterLevels ==
    {<<0, 0, Disk(0, 0, 0)>>,
     <<200, 1000, Disk(100, 40, 140)>>,
     <<249, 1099, Disk(100, 40, 140)>>,
     <<250, 1100, Disk(120, 40, 160)>>,
     <<251, 1101, Disk(120, 50, 170)>>,
     <<150, 900, Disk(100, 40, 140)>>}
DuringLevels == {<<0, 0, Disk(0, 0, 0)>>, <<300, 2000, Disk(150, 60, 210)>>}

\* a snapshot dict with the families `keys` at the readings `level`
SnapshotAt(lbl, keys, level) ==
    [label |-> lbl, error |-> NoError, keys |-> keys,
     cpu |-> IF "cpu" \in keys THEN level[1] ELSE 0,
     mem |-> IF "memory" \in keys THEN level[2] ELSE 0,
     disk |-> IF "disk" \in keys THEN level[3] ELSE Disk(0, 0, 0)]

CompareBefores ==
    {SnapshotAt(<<"before">>, ks, lv) : ks \in CompareKeySets, lv \in BeforeLevels}
CompareAfters ==
    {SnapshotAt(<<"after">>, ks, lv) : ks \in CompareKeySets, lv \in AfterLevels}
\* the snapshots the during loop can hand over for iteration k: a reading, or
\* the error dict of a collector whose request raised
DuringSnapshots(k) ==
    {SnapshotAt(<<"during", k - 1>>, ks, lv) : ks \in DuringKeySets, lv \in DuringLevels}
      \cup {ErrorSnapshot(<<"during", k - 1>>, "exception")}
\* a during list that holds error dicts is the output of one collector, whose
\* readings carry all three families (allocation, node) or none (job)
OneCollector(d) ==
    (\E k \in 1..Len(d) : d[k].error # NoError) =>
        \E ks \in {{}, Families} :
            \A k \in 1..Len(d) : d[k].error = NoError => d[k].keys = ks
CompareDurings ==
    UNION {{d \in [1..n -> UNION {DuringSnapshots(k) : k \in 1..n}] :
               /\ \A k \in 1..n : d[k] \in DuringSnapshots(k)
               /\ OneCollector(d)} : n \in 0..MaxDuring}

\* a compare_metrics that also records its result in metrics_history
CompareCall_recording ==
    /\ pc = "none"
    /\ Len(cmp_outputs) < MaxCompareCalls
    /\ cmp_outputs' = Append(cmp_outputs, compare_metrics(cmp_before, cmp_during, cmp_after))
    /\ metrics_history' =
          Append(metrics_history, compare_metrics(cmp_before, cmp_during, cmp_after))
    /\ UNCHANGED <<cmp_before, cmp_during, cmp_after, nomad_client, samplerVars,
                   resolverVars, nodeOpVars, cacheVars, updaterVars, envVars,
                   pipeVars>>

\* the caller calls compare_metrics(before, during, after) and keeps the
\* returned dict
CompareCall ==
    /\ pc = "none"
    /\ Len(cmp_outputs) < MaxCompareCalls
    /\ cmp_outputs' = Append(cmp_outputs, compare_metrics(cmp_before, cmp_during, cmp_after))
    /\ UNCHANGED <<cmp_before, cmp_during, cmp_after, collectorVars, samplerVars,
                   resolverVars, nodeOpVars, cacheVars, updaterVars, envVars,
                   pipeVars>>

\* another operation on the same collector after a compare_metrics call:
\* collect_nomad_allocation_metrics, which appends to metrics_history
CompareCollectorCall ==
    /\ pc = "none"
    /\ cmp_outputs # <<>>
    /\ Len(metrics_history) < Len(cmp_outputs)
    /\ \E r \in ReadingsOf(PipelineValues) :
          LET snap == collect_nomad_allocation_metrics(nomad_client, <<"probe">>, r) IN
          metrics_history' = HistoryAfter(metrics_history, "allocation", nomad_client, r, snap)
    /\ UNCHANGED <<compareVars, nomad_client, samplerVars, resolverVars, nodeOpVars,
                   cacheVars, updaterVars, envVars,
                   pipeVars>>

InitCompare ==
    /\ cmp_before \in CompareBefores
    /\ cmp_during \in CompareDurings
    /\ cmp_after \in CompareAfters
    /\ cmp_outputs = <<>>
    /\ nomad_client = TRUE
    /\ metrics_history = <<>>
    /\ NodeOpsIdle
    /\ CacheIdle
    /\ SamplerIdle
    /\ ResolverIdle
    /\ PipelineAbsent
    /\ UpdaterIdle

NextCompare == CompareCall \/ CompareCollectorCall

SpecCompare == InitCompare /\ [][NextCompare]_vars

\* ------------------------------------------------- comparison properties
\* the analysis of the k-th compare_metrics call
Analysis(k) == cmp_outputs[k].analysis
Analysed(k, family) == family \in DOMAIN Analysis(k)

\* C11 (as claimed): with before.memory.usage = 0 the memory entry reports
\* recovered exactly when after.memory.usage is 0 as well.
C11_MemoryZeroBaseline ==
    \A k \in 1..Len(cmp_outputs) :
        (Analysed(k, "memory") /\ cmp_before.mem = 0) =>
            (Analysis(k).memory.recovered <=> cmp_after.mem = 0)

\* C12: the analysis has a memory entry exactly when before and after both
\* carry memory, and then recovered is true exactly when
\* |after.memory.usage - before.memory.usage| < 0.10 * before.memory.usage;
\* before = 1000 with after = 1099 is recovered, with after = 1101 it is not.
C12_MemoryBand ==
    \A k \in 1..Len(cmp_outputs) :
        /\ Analysed(k, "memory") <=>
              ("memory" \in cmp_before.keys /\ "memory" \in cmp_after.keys)
        /\ Analysed(k, "memory") =>
              /\ Analysis(k).memory.recovered <=>
                    (/\ 10 * (cmp_after.mem - cmp_before.mem) < cmp_before.mem
                     /\ 10 * (cmp_before.mem - cmp_after.mem) < cmp_before.mem)
              /\ (cmp_before.mem = 1000 /\ cmp_after.mem = 1099) =>
                    Analysis(k).memory.recovered
              /\ (cmp_before.mem = 1000 /\ cmp_after.mem = 1101) =>
                    ~Analysis(k).memory.recovered

\* witness of C12: before = 1000 and after = 1099 were compared and reported
\* as recovered
C12_Witness ==
    /\ cmp_outputs # <<>>
    /\ cmp_before.mem = 1000 /\ cmp_after.mem = 1099
    /\ Analysed(1, "memory") /\ Analysis(1).memory.recovered

\* C13: the analysis has a cpu entry exactly when before and after both carry
\* cpu; then peak_during_percent is the largest cpu.percent of the during
\* snapshots that carry cpu (0 when none does), change_during is peak minus
\* before, and recovered is true exactly when |after - before| < 5 percentage
\* points; before = 20 with after = 24.9 is recovered, with after = 25.1 not.
C13_CpuComparison ==
    \A k \in 1..Len(cmp_outputs) :
        /\ Analysed(k, "cpu") <=> ("cpu" \in cmp_before.keys /\ "cpu" \in cmp_after.keys)
        /\ Analysed(k, "cpu") =>
              LET carrying == {j \in 1..Len(cmp_during) : "cpu" \in cmp_during[j].keys}
                  cpu == Analysis(k).cpu
              IN
              /\ carrying = {} => cpu.peak_during_percent = 0
              /\ carrying # {} =>
                    /\ \E j \in carrying : cpu.peak_during_percent = cmp_during[j].cpu
                    /\ \A j \in carrying : cmp_during[j].cpu <= cpu.peak_during_percent
              /\ cpu.change_during = cpu.peak_during_percent - cmp_before.cpu
              /\ cpu.recovered <=>
                    (/\ cmp_after.cpu - cmp_before.cpu < 5 * CpuUnit
                     /\ cmp_before.cpu - cmp_after.cpu < 5 * CpuUnit)
              /\ (cmp_before.cpu = 200 /\ cmp_after.cpu = 249) => cpu.recovered
              /\ (cmp_before.cpu = 200 /\ cmp_after.cpu = 251) => ~cpu.recovered

\* witness of C13: before = 20 and after = 24.9 were compared across a during
\* list in which one snapshot carries cpu and one does not; the peak is that
\* snapshot's 30.0 and the target is reported as recovered
C13_Witness ==
    /\ cmp_outputs # <<>>
    /\ cmp_before.cpu = 200 /\ cmp_after.cpu = 249
    /\ Len(cmp_during) = 2
    /\ "cpu" \notin cmp_during[1].keys /\ "cpu" \in cmp_during[2].keys
    /\ Analysed(1, "cpu")
    /\ Analysis(1).cpu.peak_during_percent = 300
    /\ Analysis(1).cpu.change_during = 100
    /\ Analysis(1).cpu.recovered

\* C14: when no during snapshot carries disk (an empty during list included),
\* the three disk peaks are the before values and the three increases are 0.
C14_DiskPeakFallback ==
    \A k \in 1..Len(cmp_outputs) :
        (/\ Analysed(k, "disk")
         /\ \A j \in 1..Len(cmp_during) : "disk" \notin cmp_during[j].keys)
        => /\ Analysis(k).disk.peak_read_bytes = cmp_before.disk.read_bytes
           /\ Analysis(k).disk.peak_write_bytes = cmp_before.disk.write_bytes
           /\ Analysis(k).disk.peak_total_bytes = cmp_before.disk.total_bytes
           /\ Analysis(k).disk.read_increase = 0
           /\ Analysis(k).disk.write_increase = 0
           /\ Analysis(k).disk.total_increase = 0

\* witness of C14: before.disk.read_bytes = 100 was compared across an empty
\* during list
C14_Witness ==
    /\ cmp_outputs # <<>>
    /\ cmp_during = <<>>
    /\ cmp_before.disk.read_bytes = 100
    /\ Analysed(1, "disk")
    /\ Analysis(1).disk.peak_read_bytes = 100
    /\ Analysis(1).disk.read_increase = 0

MaxNodeCalls == 2

NodeIds == {"node-1", "node-2"}

\* what a requests.post call can do: answer with a status code, or raise
\* (RequestRaised)
RequestRaised == 0
StatusCodes == {200, 204, 404, 500}
PostOutcomes == StatusCodes \cup {RequestRaised}

\* a status test that accepts every answer
Accepted_any(outcome) == outcome # RequestRaised

\* `response.status_code in [200, 204]`
Accepted(outcome) == outcome \in {200, 204}

\* the call being made, or made last
NodeCall == Len(no_returns) + 1

Post(url, outcome) ==
    [call |-> NodeCall, node |-> no_node, url |-> url, outcome |-> outcome]

Return(op, value) ==
    /\ no_returns' = Append(no_returns, [op |-> op, node |-> no_node, value |-> value])
    /\ no_pc' = "idle"

\* recover_node(node_id) up to its first request; in stub mode it returns
\* True at once
RecoverCall ==
    /\ pc = "none"
    /\ no_pc = "idle"
    /\ Len(no_returns) < MaxNodeCalls
    /\ \E n \in NodeIds :
          /\ no_node' = n
          /\ IF no_stub
                THEN /\ no_returns' =
                          Append(no_returns, [op |-> "recover", node |-> n, value |-> TRUE])
                     /\ no_pc' = "idle"
                ELSE /\ no_returns' = no_returns
                     /\ no_pc' = "recover_drain"
    /\ UNCHANGED <<no_stub, no_posts, compareVars, cacheVars, samplerVars, collectorVars,
                   resolverVars, updaterVars, envVars,
                   pipeVars>>

\* step 1: `requests.post(drain_url, ..)` with DrainSpec None; a raise or a
\* status outside [200, 204] ends the call with False
RecoverDrainPost ==
    /\ pc = "none"
    /\ no_pc = "recover_drain"
    /\ \E outcome \in PostOutcomes :
          /\ no_posts' = Append(no_posts, Post("drain", outcome))
          /\ IF Accepted(outcome)
                THEN no_pc' = "recover_eligibility" /\ no_returns' = no_returns
                ELSE Return("recover", FALSE)
    /\ UNCHANGED <<no_stub, no_node, compareVars, cacheVars, samplerVars, collectorVars,
                   resolverVars, updaterVars, envVars,
                   pipeVars>>

\* step 2: `requests.post(eligibility_url, ..)`; the call returns whether the
\* status is in [200, 204], False when the request raises
RecoverEligibilityPost ==
    /\ pc = "none"
    /\ no_pc = "recover_eligibility"
    /\ \E outcome \in PostOutcomes :
          /\ no_posts' = Append(no_posts, Post("eligibility", outcome))
          /\ Return("recover", Accepted(outcome))
    /\ UNCHANGED <<no_stub, no_node, compareVars, cacheVars, samplerVars, collectorVars,
                   resolverVars, updaterVars, envVars,
                   pipeVars>>

\* drain_node(node_id): True in stub mode, else one drain request and
\* whether its status is in [200, 204], False when the request raises
DrainCall ==
    /\ pc = "none"
    /\ no_pc = "idle"
    /\ Len(no_returns) < MaxNodeCalls
    /\ \E n \in NodeIds :
          /\ no_node' = n
          /\ IF no_stub
                THEN /\ no_posts' = no_posts
                     /\ no_returns' =
                          Append(no_returns, [op |-> "drain", node |-> n, value |-> TRUE])
                ELSE \E outcome \in PostOutcomes :
                     /\ no_posts' =
                          Append(no_posts, [call |-> NodeCall, node |-> n, url |-> "drain",
                                            outcome |-> outcome])
                     /\ no_returns' =
                          Append(no_returns,
                                 [op |-> "drain", node |-> n, value |-> Accepted(outcome)])
    /\ UNCHANGED <<no_pc, no_stub, compareVars, cacheVars, samplerVars, collectorVars,
                   resolverVars, updaterVars, envVars,
                   pipeVars>>

InitNodeOps ==
    /\ no_pc = "idle"
    /\ no_stub \in BOOLEAN
    /\ no_node = ""
    /\ no_posts = <<>>
    /\ no_returns = <<>>
    /\ CompareIdle
    /\ CacheIdle
    /\ SamplerIdle
    /\ ResolverIdle
    /\ nomad_client = TRUE
    /\ metrics_history = <<>>
    /\ PipelineAbsent
    /\ UpdaterIdle

NextNodeOps == RecoverCall \/ RecoverDrainPost \/ RecoverEligibilityPost \/ DrainCall

SpecNodeOps == InitNodeOps /\ [][NextNodeOps]_vars

\* ---------------------------------------------- node operation properties
\* the requests call c has posted, in order
PostsOf(c) == SelectSeq(no_posts, LAMBDA p : p.call = c)

Answered200(p) == p.outcome \in {200, 204}

\* C17: outside stub mode a recover_node call posts the drain-disable request
\* first and the eligibility request only after the drain-disable request
\* answered 200 or 204; a finished call returned True exactly when it made
\* exactly two requests and both answered 200 or 204; a first request that
\* failed or raised ends the call with False and without a second request;
\* a raising request never leaves the call unfinished.
C17_TwoStepRecovery ==
    ~no_stub =>
       /\ \A c \in 1..Len(no_returns) :
             no_returns[c].op = "recover" =>
                LET posts == PostsOf(c) IN
                /\ Len(posts) \in {1, 2}
                /\ posts[1].url = "drain" /\ posts[1].node = no_returns[c].node
                /\ Len(posts) = 2 <=> Answered200(posts[1])
                /\ Len(posts) = 2 =>
                      posts[2].url = "eligibility" /\ posts[2].node = no_returns[c].node
                /\ no_returns[c].value <=>
                      (Len(posts) = 2 /\ Answered200(posts[1]) /\ Answered200(posts[2]))
       /\ no_pc = "recover_drain" => PostsOf(NodeCall) = <<>>
       /\ no_pc = "recover_eligibility" =>
             /\ Len(PostsOf(NodeCall)) = 1
             /\ PostsOf(NodeCall)[1].url = "drain"
             /\ Answered200(PostsOf(NodeCall)[1])
       /\ no_pc = "idle" => \A p \in {no_posts[k] : k \in 1..Len(no_posts)} :
                                p.call <= Len(no_returns)

\* witness of C17: a recovery has returned True after its two requests
\* answered 204 and 200
C17_Witness ==
    /\ ~no_stub
    /\ Len(no_returns) = 1 /\ no_returns[1].op = "recover" /\ no_returns[1].value
    /\ Len(no_posts) = 2
    /\ no_posts[1].url = "drain" /\ no_posts[1].outcome = 204
    /\ no_posts[2].url = "eligibility" /\ no_posts[2].outcome = 200

\* ------------------------------------------------- specification: cache
\* operations called on one CacheManager
MaxCacheOps == 3

CacheKeys == {"a:1", "b:1"}
CachePatterns == {"*", "a:*"}

\* the keys `self._client.keys(pattern)` answers
PatternKeys(pattern, keys) ==
    IF pattern = "*" THEN keys ELSE {k \in keys : k = "a:1"}

\* the values handed to set: json.dumps returns a string ("plain"), raises
\* TypeError ("unserializable") or raises ValueError ("circular")
CacheValues == {"plain", "unserializable", "circular"}

\* a constructor that keeps its client whatever ping() did
Constructed_keepsClient(reachable) == [enabled |-> TRUE, client |-> TRUE]

\* CacheManager.__init__: _enabled and `_client is not None` after the
\* try / except around from_url and ping
Constructed(reachable) == [enabled |-> reachable, client |-> reachable]

\* the `enabled` property
Enabled == c_enabled /\ c_client

CacheOp(op, ret, count, raises) ==
    /\ c_last' = [op |-> op, ret |-> ret, count |-> count, raised |-> raises]
    /\ c_ops' = c_ops + 1

\* CacheManager(redis_url): ping() answers or raises a connection error
CacheConstruct ==
    /\ pc = "none"
    /\ c_pc = "new"
    /\ c_pc' = "ready"
    /\ c_enabled' = Constructed(redis_up).enabled
    /\ c_client' = Constructed(redis_up).client
    /\ c_unreachable' = ~redis_up
    /\ UNCHANGED <<c_ops, c_last, redis_up, redis_keys, compareVars, nodeOpVars,
                   samplerVars, collectorVars, resolverVars, updaterVars, envVars,
                   pipeVars>>

\* the Redis server goes down or comes back
RedisChange ==
    /\ pc = "none"
    /\ c_pc = "ready"
    /\ redis_up' = ~redis_up
    /\ UNCHANGED <<c_pc, c_enabled, c_client, c_unreachable, c_ops, c_last, redis_keys,
                   compareVars, nodeOpVars, samplerVars, collectorVars, resolverVars,
                   updaterVars, envVars,
                   pipeVars>>

\* CacheManager.get(key)
CacheGet ==
    /\ pc = "none"
    /\ c_pc = "ready"
    /\ c_ops < MaxCacheOps
    /\ \E key \in CacheKeys :
          IF ~Enabled THEN CacheOp("get", "None", 0, FALSE)
          ELSE IF ~redis_up THEN CacheOp("get", "None", 0, FALSE)
          ELSE IF key \in redis_keys THEN CacheOp("get", "value", 0, FALSE)
          ELSE CacheOp("get", "None", 0, FALSE)
    /\ UNCHANGED <<c_pc, c_enabled, c_client, c_unreachable, redis_up, redis_keys,
                   compareVars, nodeOpVars, samplerVars, collectorVars, resolverVars,
                   updaterVars, envVars,
                   pipeVars>>

\* CacheManager.set(key, value): json.dumps, then set / setex; RedisError and
\* TypeError are caught, any other exception of json.dumps leaves the call
CacheSet ==
    /\ pc = "none"
    /\ c_pc = "ready"
    /\ c_ops < MaxCacheOps
    /\ \E key \in CacheKeys, value \in CacheValues :
          IF ~Enabled
          THEN CacheOp("set", "False", 0, FALSE) /\ redis_keys' = redis_keys
          ELSE IF value = "unserializable"
          THEN CacheOp("set", "False", 0, FALSE) /\ redis_keys' = redis_keys
          ELSE IF value = "circular"
          THEN CacheOp("set", "", 0, TRUE) /\ redis_keys' = redis_keys
          ELSE IF ~redis_up
          THEN CacheOp("set", "False", 0, FALSE) /\ redis_keys' = redis_keys
          ELSE CacheOp("set", "True", 0, FALSE) /\ redis_keys' = redis_keys \cup {key}
    /\ UNCHANGED <<c_pc, c_enabled, c_client, c_unreachable, redis_up, compareVars,
                   nodeOpVars, samplerVars, collectorVars, resolverVars, updaterVars, envVars,
                   pipeVars>>

\* CacheManager.delete(key)
CacheDelete ==
    /\ pc = "none"
    /\ c_pc = "ready"
    /\ c_ops < MaxCacheOps
    /\ \E key \in CacheKeys :
          IF ~Enabled \/ ~redis_up
          THEN CacheOp("delete", "False", 0, FALSE) /\ redis_keys' = redis_keys
          ELSE CacheOp("delete", "True", 0, FALSE) /\ redis_keys' = redis_keys \ {key}
    /\ UNCHANGED <<c_pc, c_enabled, c_client, c_unreachable, redis_up, compareVars,
                   nodeOpVars, samplerVars, collectorVars, resolverVars, updaterVars, envVars,
                   pipeVars>>

\* CacheManager.clear_pattern(pattern): the number of keys deleted
CacheClearPattern ==
    /\ pc = "none"
    /\ c_pc = "ready"
    /\ c_ops < MaxCacheOps
    /\ \E pattern \in CachePatterns :
          IF ~Enabled \/ ~redis_up
          THEN CacheOp("clear_pattern", "", 0, FALSE) /\ redis_keys' = redis_keys
          ELSE /\ CacheOp("clear_pattern", "",
                          Cardinality(PatternKeys(pattern, redis_keys)), FALSE)
               /\ redis_keys' = redis_keys \ PatternKeys(pattern, redis_keys)
    /\ UNCHANGED <<c_pc, c_enabled, c_client, c_unreachable, redis_up, compareVars,
                   nodeOpVars, samplerVars, collectorVars, resolverVars, updaterVars, envVars,
                   pipeVars>>

InitCache ==
    /\ c_pc = "new" /\ c_enabled = FALSE /\ c_client = FALSE
    /\ c_unreachable = FALSE /\ c_ops = 0 /\ c_last = NoCacheOp
    /\ redis_up \in BOOLEAN
    /\ redis_keys \in SUBSET CacheKeys
    /\ CompareIdle
    /\ NodeOpsIdle
    /\ SamplerIdle
    /\ ResolverIdle
    /\ nomad_client = TRUE
    /\ metrics_history = <<>>
    /\ PipelineAbsent
    /\ UpdaterIdle

NextCache ==
    \/ CacheConstruct
    \/ RedisChange
    \/ CacheGet
    \/ CacheSet
    \/ CacheDelete
    \/ CacheClearPattern

SpecCache == InitCache /\ [][NextCache]_vars

\* ------------------------------------------------------ cache properties
\* C18: a CacheManager that could not reach Redis at construction is
\* disabled and stays disabled, whatever Redis does afterwards; every set and
\* delete on it returns False, every get None, every clear_pattern 0, none
\* raises, and none reaches the server.
C18_CacheFallback ==
    /\ [](c_unreachable =>
            /\ ~Enabled
            /\ ~c_last.raised
            /\ c_last.op \in {"set", "delete"} => c_last.ret = "False"
            /\ c_last.op = "get" => c_last.ret = "None"
            /\ c_last.op = "clear_pattern" => c_last.count = 0)
    /\ [][c_unreachable => redis_keys' = redis_keys]_vars

\* witness of C18: Redis was down at construction and came back; the third
\* operation on the cache, a set, has returned False while a key is stored
C18_Witness ==
    /\ c_unreachable /\ redis_up
    /\ c_ops = 3
    /\ c_last.op = "set" /\ c_last.ret = "False"
    /\ redis_keys # {}

\* ------------------------------------------------ run records and labels
\* the statuses an ExperimentRun may carry
RunStatuses == {"dry-run", "completed", "failed"}

\* C21 (as claimed): the status of every ExperimentRun the pipeline has
\* built, collected or returned is dry-run, completed or failed, whatever
\* the trigger call gave back.
C21_RunStatusDomain ==
    /\ \A k \in 1..Len(results) : results[k].status \in RunStatuses
    /\ returned # <<>> => returned[1].status \in RunStatuses

\* C22 (as claimed): the snapshot a sampling call took in iteration k carries
\* the label "{label_prefix}_{k}", whether its reading succeeded or failed
\* and whatever the target type.
C22_SamplerLabelling ==
    \A k \in 1..Len(snapshots) : snapshots[k].label = <<label, k - 1>>

\* ----------------------------------------- error snapshots in a comparison
\* the during snapshots that carry no error and carry `family`
Healthy(family) ==
    {j \in 1..Len(cmp_during) :
        cmp_during[j].error = NoError /\ family \in cmp_during[j].keys}

\* C23: in the result of a compare_metrics call the cpu, memory and disk
\* peaks are taken over the during snapshots without error only (the
\* defaults apply when there is none), and the during list of the result is
\* the input during list, error snapshots kept in place.
C23_ErrorSnapshotsIgnored ==
    \A k \in {Len(cmp_outputs)} \ {0} :
        /\ cmp_outputs[k].during = cmp_during
        /\ Analysed(k, "cpu") =>
              Analysis(k).cpu.peak_during_percent =
                 MaxOf({cmp_during[j].cpu : j \in Healthy("cpu")}, 0)
        /\ Analysed(k, "memory") =>
              Analysis(k).memory.peak_during_bytes =
                 MaxOf({cmp_during[j].mem : j \in Healthy("memory")}, 0)
        /\ Analysed(k, "disk") =>
              /\ Analysis(k).disk.peak_read_bytes =
                    MaxOf({cmp_during[j].disk.read_bytes : j \in Healthy("disk")},
                          cmp_before.disk.read_bytes)
              /\ Analysis(k).disk.peak_write_bytes =
                    MaxOf({cmp_during[j].disk.write_bytes : j \in Healthy("disk")},
                          cmp_before.disk.write_bytes)
              /\ Analysis(k).disk.peak_total_bytes =
                    MaxOf({cmp_during[j].disk.total_bytes : j \in Healthy("disk")},
                          cmp_before.disk.total_bytes)

\* witness of C23: a during list of one error snapshot followed by a reading
\* was compared against a baseline with disk traffic; the peaks are the
\* reading's and the error snapshot is still first in the result
C23_Witness ==
    /\ cmp_outputs # <<>>
    /\ Len(cmp_during) = 2
    /\ cmp_during[1].error # NoError
    /\ cmp_during[2].keys = Families /\ cmp_during[2].cpu = 300
    /\ cmp_before.disk.read_bytes = 100
    /\ DOMAIN Analysis(1) = Families
    /\ Analysis(1).cpu.peak_during_percent = 300
    /\ Analysis(1).disk.peak_read_bytes = 150
    /\ cmp_outputs[1].during[1].error = "exception"

\* ------------------------------------------------- state between the runs
\* C24 (as claimed): once a pipeline run has finished, the collector's
\* metrics_history is what it was before the first run, i.e. empty.
C24_NoSharedState ==
    results # <<>> => metrics_history = <<>>


\* C25 (as claimed): any two pipeline runs that wrote to the reports
\* directory have different run ids.
C25_RunIdsDistinct ==
    \A j, k \in 1..Len(results) : j # k => results[j].run_id # results[k].run_id


\* ------------------------------------------------------ target selection
\* positions of the catalog entries whose identifier or name attribute is x
NamedOrIdentified(x) ==
    {k \in 1..Len(Catalog) : Catalog[k].identifier = x \/ Catalog[k].name = x}

\* the entry a single-target call is to run on (<<>> : none)
Expected ==
    IF request.target_id # <<>>
    THEN LET hits == NamedOrIdentified(request.target_id[1])
         IN  <<Catalog[CHOOSE k \in hits : \A j \in hits : k <= j]>>
    ELSE IF Catalog # <<>> THEN <<Catalog[1]>> ELSE <<>>

\* the blocks of a run between rendering and the last artifact file
InRun ==
    pc \in {"baseline", "trigger", "sample", "sampling", "post", "compare",
            "persist_json", "persist_md", "persist_html"}

\* C26: a call with one identifier x fails in Resolving exactly when no
\* catalog entry has identifier x or name x, and otherwise runs on the first
\* such entry in catalog order; a call without identifier runs on the first
\* catalog entry.
C26_SingleTargetSelection ==
    (Called /\ ~IsFanOut) =>
        IF request.target_id # <<>> /\ NamedOrIdentified(request.target_id[1]) = {}
        THEN pc = "raised" /\ raised = "Resolving"
        ELSE /\ raised # "Resolving"
             /\ pc = "render" => todo = <<Expected>>
             /\ InRun => target = Expected
             /\ results # <<>> =>
                   results[1].target_id =
                      (IF Expected = <<>> THEN <<>> ELSE <<Expected[1].identifier>>)

\* witness of C26: "web" is the name of the first catalog entry and the
\* identifier of the second; the call has run on the first
C26_Witness ==
    /\ pc = "returned"
    /\ request.target_id = <<"web">>
    /\ Len(Catalog) >= 2
    /\ Catalog[1].identifier = "web-123" /\ Catalog[2].identifier = "web"
    /\ returned[1].target_id = <<"web-123">>


\* the listed identifiers that are the identifier of a catalog entry, in
\* list order
Listed ==
    SelectSeq(request.target_id,
              LAMBDA x : \E k \in 1..Len(Catalog) : Catalog[k].identifier = x)

\* C27: a call with an identifier list fails in Resolving exactly when no
\* listed identifier is the identifier of a catalog entry (a name match does
\* not count); otherwise the unmatched identifiers are skipped and the
\* pipeline runs once per matching listed identifier, in list order: the
\* finished runs, the running one and the waiting ones are the matching
\* identifiers.
C27_PartialFanOut ==
    (Called /\ IsFanOut) =>
        IF Listed = <<>>
        THEN pc = "raised" /\ raised = "Resolving" /\ results = <<>>
        ELSE /\ raised # "Resolving"
             /\ Len(results) <= Len(Listed)
             /\ \A k \in 1..Len(results) : results[k].target_id = <<Listed[k]>>
             /\ InRun => /\ target # <<>>
                         /\ target[1].identifier = Listed[Len(results) + 1]
             /\ pc # "raised" =>
                   Len(results) + (IF InRun THEN 1 ELSE 0) + Len(todo) = Len(Listed)
             /\ \A k \in 1..Len(todo) :
                   todo[k][1].identifier =
                      Listed[Len(Listed) - Len(todo) + k]
             /\ pc = "returned" => Len(results) = Len(Listed)

\* witness of C27: of the list "web,node-1" only node-1 is an identifier of
\* the catalog ("web" is the name of an entry); the call has returned after
\* one run, on node-1
C27_Witness ==
    /\ pc = "returned"
    /\ request.target_id = <<"web", "node-1">>
    /\ \E k \in 1..Len(Catalog) : Catalog[k].name = "web"
    /\ \A k \in 1..Len(Catalog) : Catalog[k].identifier # "web"
    /\ Len(results) = 1
    /\ results[1].target_id = <<"node-1">>


\* ------------------------------------------------------ non-node targets
\* the running pipeline collects metrics on a job target of the Nomad
\* catalog (kind service, batch or system)
JobTargetMeasured ==
    /\ target # <<>>
    /\ target[1].kind \in {"service", "batch", "system"}
    /\ MetricsEnabled(request, target)

\* C28: a non-dry run with metrics enabled on a job target of the Nomad
\* catalog has no baseline and no post snapshot, computes no comparison and
\* persists no analysis; its sampler (for a positive interval) still takes
\* duration // interval snapshots with a sleep between each two, and every
\* one of them is an error snapshot.
C28_JobTargetsUnmeasured ==
    JobTargetMeasured =>
        /\ before_metrics = <<>> /\ after_metrics = <<>> /\ metrics_comparison = <<>>
        /\ pc = "persist_md" => reports[<<run_id, "json">>].metrics = <<>>
        /\ (pc = "sampling" /\ s_pc = "loop" /\ i >= SamplerIterations) =>
              /\ Len(snapshots) = request.metrics_duration \div request.metrics_interval
              /\ sleeps = (IF Len(snapshots) = 0 THEN 0 ELSE Len(snapshots) - 1)
        /\ pc \in {"post", "compare", "persist_json", "persist_md", "persist_html"} =>
              /\ Len(during_metrics) =
                    request.metrics_duration \div request.metrics_interval
              /\ \A k \in 1..Len(during_metrics) : during_metrics[k].error # NoError

\* witness of C28: a run on the service target web-123 whose trigger
\* completed has sampled twice (two error snapshots) and has written a JSON
\* artifact without analysis
C28_Witness ==
    /\ JobTargetMeasured /\ pc = "persist_md"
    /\ target[1].kind = "service" /\ nomad_client
    /\ output[1].status = "completed"
    /\ request.metrics_duration = 2 /\ request.metrics_interval = 1
    /\ Len(during_metrics) = 2
    /\ during_metrics[1].error = "Unknown target type"
    /\ before_metrics = <<>> /\ after_metrics = <<>>
    /\ reports[<<run_id, "json">>].metrics = <<>>


\* ------------------------------------------------------------ no target
\* the call names no target and its catalog, after the chaos-type filter, is
\* empty
NoTargetCall == Called /\ request.target_id = <<>> /\ Catalog = <<>>

\* the trigger statement of the running pipeline has been executed
TriggerPassed ==
    \/ pc \in {"sample", "sampling", "post", "compare", "persist_json", "persist_md",
               "persist_html", "return", "returned"}
    \/ pc = "raised" /\ raised \in {"Triggering", "Persisting"}

\* C30: a call without identifier on an empty catalog does not fail in
\* Resolving: it runs one pipeline without target, which takes no snapshot,
\* invokes the engine when the run is not a dry run (and the engine is
\* installed), and, when it returns, has persisted its artifact and hands
\* back an ExperimentRun whose target_id is null.
C30_EmptyCatalog ==
    NoTargetCall =>
        /\ raised # "Resolving"
        /\ pc = "render" => todo = << <<>> >>
        /\ target = <<>>
        /\ before_metrics = <<>> /\ during_metrics = <<>> /\ after_metrics = <<>>
        /\ metrics_comparison = <<>> /\ s_pc = "idle" /\ metrics_history = <<>>
        /\ \A j \in 1..Len(log) :
              log[j].phase \notin {"BaselineCapture", "Sampling", "PostCapture", "Comparing"}
        /\ (TriggerPassed /\ ~request.dry_run /\ chaoslib) => "Triggering" \in Phases(1)
        /\ pc = "returned" =>
              /\ Len(results) = 1
              /\ returned[1].target_id = <<>>
              /\ \A ext \in {"json", "md", "html"} : HasFile(returned[1].run_id, ext)
              /\ reports[<<returned[1].run_id, "json">>].experiment.target_id = "unknown"
              /\ reports[<<returned[1].run_id, "json">>].metrics = <<>>

\* witness of C30: the only catalog entry is filtered out by the chaos type;
\* the non-dry call with metrics requested has returned a completed run
\* without target
C30_Witness ==
    /\ NoTargetCall /\ pc = "returned"
    /\ all_targets # <<>> /\ request.chaos_type = "cpu-hog"
    /\ ~request.dry_run /\ request.collect_metrics /\ chaoslib
    /\ returned[1].status = "completed"
    /\ returned[1].target_id = <<>>
    /\ "Triggering" \in Phases(1)


\* --------------------------------------- specification: Dora status updater
\* request-handler threads of the web server
MaxHandlers == 2
\* updater threads created
MaxUpdaters == 2
\* calls (first requests, _start and _stop calls) begun
MaxUpdaterCalls == 3
\* refreshes explored per updater thread
MaxRefreshes == 2

Handlers == 1..MaxHandlers
Updaters == 1..MaxUpdaters
NoThread == 0

othersThanUpdater ==
    <<samplerVars, collectorVars, resolverVars, compareVars, nodeOpVars, cacheVars,
      envVars, pipeVars>>

\* a handler thread between two calls
Idle == [pc |-> "idle", joined |-> NoThread]

At(h, at) == u_callers[h].pc = at
Goto(h, at) == u_callers' = [u_callers EXCEPT ![h].pc = at]

\* the updater thread is inside `while _dora_updater_running:`
InLoop(t) == u_threads[t] \in {"while", "for", "probe", "sleep"}

\* Thread.join(timeout=5) gives up on a thread that is inside a network call
\* (the DoraClient set-up, probe_and_cache_dora_env); a thread in the
\* one-second sleep loop sees the cleared flag in time
JoinTimesOut(t) == u_threads[t] \in {"envs", "probe"}

\* `_dora_updater_thread.join(timeout=timeout)` inside try / except: it
\* returns when the thread has exited or the timeout has passed, and raises
\* (caught) when the global is None by now
JoinReturns(t) ==
    IF t = NoThread THEN TRUE
    ELSE u_threads[t] \in {"unborn", "dead"} \/ JoinTimesOut(t)

\* a handler thread takes a request (the before_request hook runs), or a
\* handler calls _start_dora_background_updater / _stop_dora_background_updater
BeginCall(h) ==
    /\ At(h, "idle")
    /\ u_calls < MaxUpdaterCalls
    /\ u_calls' = u_calls + 1
    /\ \E entry \in {"fr_check", "st_cache", "sp_check"} : Goto(h, entry)
    /\ UNCHANGED <<u_initialised, u_running, u_thread, u_threads, u_stopped,
                   u_refreshes, othersThanUpdater>>

\* _on_app_first_request: `if _dora_updater_initialised: return`
FirstRequestCheck(h) ==
    /\ At(h, "fr_check")
    /\ Goto(h, IF u_initialised THEN "idle" ELSE "fr_set")
    /\ UNCHANGED <<u_initialised, u_running, u_thread, u_threads, u_calls, u_stopped,
                   u_refreshes, othersThanUpdater>>

\* `_dora_updater_initialised = True`, then load_settings, which may raise
\* (caught: nothing is started)
FirstRequestSet(h) ==
    /\ At(h, "fr_set")
    /\ u_initialised' = TRUE
    /\ \E loaded \in BOOLEAN : Goto(h, IF loaded THEN "st_cache" ELSE "idle")
    /\ UNCHANGED <<u_running, u_thread, u_threads, u_calls, u_stopped, u_refreshes,
                   othersThanUpdater>>

\* _start_dora_background_updater: `if not cache.enabled: return`
StartCacheCheck(h) ==
    /\ At(h, "st_cache")
    /\ Goto(h, IF Enabled THEN "st_check" ELSE "idle")
    /\ UNCHANGED <<u_initialised, u_running, u_thread, u_threads, u_calls, u_stopped,
                   u_refreshes, othersThanUpdater>>

\* `if _dora_updater_running: return`
StartCheck(h) ==
    /\ At(h, "st_check")
    /\ Goto(h, IF u_running THEN "idle" ELSE "st_set")
    /\ UNCHANGED <<u_initialised, u_running, u_thread, u_threads, u_calls, u_stopped,
                   u_refreshes, othersThanUpdater>>

\* `_dora_updater_running = True`
StartSet(h) ==
    /\ At(h, "st_set")
    /\ u_running' = TRUE
    /\ Goto(h, "st_spawn")
    /\ UNCHANGED <<u_initialised, u_thread, u_threads, u_calls, u_stopped,
                   u_refreshes, othersThanUpdater>>

\* `_dora_updater_thread = Thread(target=updater, daemon=True)` and its
\* start()
StartSpawn(h) ==
    /\ At(h, "st_spawn")
    /\ \E t \in Updaters :
          /\ u_threads[t] = "unborn"
          /\ \A other \in Updaters : u_threads[other] = "unborn" => t <= other
          /\ u_thread' = t
          /\ u_threads' = [u_threads EXCEPT ![t] = "envs"]
    /\ Goto(h, "idle")
    /\ UNCHANGED <<u_initialised, u_running, u_calls, u_stopped, u_refreshes, othersThanUpdater>>

\* _stop_dora_background_updater: `if not _dora_updater_thread:` clears the
\* flag and returns
StopCheck(h) ==
    /\ At(h, "sp_check")
    /\ IF u_thread = NoThread
          THEN u_running' = FALSE /\ Goto(h, "idle")
          ELSE u_running' = u_running /\ Goto(h, "sp_clear")
    /\ UNCHANGED <<u_initialised, u_thread, u_threads, u_calls, u_stopped,
                   u_refreshes, othersThanUpdater>>

\* `_dora_updater_running = False`
StopClear(h) ==
    /\ At(h, "sp_clear")
    /\ u_running' = FALSE
    /\ Goto(h, "sp_join")
    /\ UNCHANGED <<u_initialised, u_thread, u_threads, u_calls, u_stopped,
                   u_refreshes, othersThanUpdater>>

\* the join returns
StopJoin(h) ==
    /\ At(h, "sp_join")
    /\ JoinReturns(u_thread)
    /\ u_callers' = [u_callers EXCEPT ![h] = [pc |-> "sp_none", joined |-> u_thread]]
    /\ UNCHANGED <<u_initialised, u_running, u_thread, u_threads, u_calls, u_stopped,
                   u_refreshes, othersThanUpdater>>

\* `_dora_updater_thread = None`; the call returns and the thread it joined
\* counts as stopped
StopNone(h) ==
    /\ At(h, "sp_none")
    /\ u_thread' = NoThread
    /\ u_stopped' = u_stopped \cup ({u_callers[h].joined} \ {NoThread})
    /\ u_callers' = [u_callers EXCEPT ![h] = Idle]
    /\ UNCHANGED <<u_initialised, u_running, u_threads, u_calls, u_refreshes, othersThanUpdater>>

\* updater(): the environments are determined
UpdaterEnvs(t) ==
    /\ u_threads[t] = "envs"
    /\ u_threads' = [u_threads EXCEPT ![t] = "while"]
    /\ UNCHANGED <<u_initialised, u_running, u_thread, u_callers, u_calls, u_stopped,
                   u_refreshes, othersThanUpdater>>

\* `while _dora_updater_running:`
UpdaterWhile(t) ==
    /\ u_threads[t] = "while"
    /\ u_threads' = [u_threads EXCEPT ![t] = IF u_running THEN "for" ELSE "finally"]
    /\ UNCHANGED <<u_initialised, u_running, u_thread, u_callers, u_calls, u_stopped,
                   u_refreshes, othersThanUpdater>>

\* `for env in envs: if not _dora_updater_running: break`
UpdaterFor(t) ==
    /\ u_threads[t] = "for"
    /\ u_running => u_refreshes[t] < MaxRefreshes
    /\ u_threads' = [u_threads EXCEPT ![t] = IF u_running THEN "probe" ELSE "sleep"]
    /\ UNCHANGED <<u_initialised, u_running, u_thread, u_callers, u_calls, u_stopped,
                   u_refreshes, othersThanUpdater>>

\* probe_and_cache_dora_env(env, settings) returns (or raises, caught)
UpdaterProbe(t) ==
    /\ u_threads[t] = "probe"
    /\ u_threads' = [u_threads EXCEPT ![t] = "sleep"]
    /\ u_refreshes' = [u_refreshes EXCEPT ![t] = @ + 1]
    /\ UNCHANGED <<u_initialised, u_running, u_thread, u_callers, u_calls, u_stopped,
                   othersThanUpdater>>

\* `while _dora_updater_running and slept < DORA_STATUS_UPDATE_INTERVAL` ends
UpdaterSleep(t) ==
    /\ u_threads[t] = "sleep"
    /\ u_threads' = [u_threads EXCEPT ![t] = "while"]
    /\ UNCHANGED <<u_initialised, u_running, u_thread, u_callers, u_calls, u_stopped,
                   u_refreshes, othersThanUpdater>>

\* finally: `_dora_updater_running = False`, the thread exits
UpdaterFinally(t) ==
    /\ u_threads[t] = "finally"
    /\ u_threads' = [u_threads EXCEPT ![t] = "dead"]
    /\ u_running' = FALSE
    /\ UNCHANGED <<u_initialised, u_thread, u_callers, u_calls, u_stopped,
                   u_refreshes, othersThanUpdater>>

\* the web app after import: `cache = get_cache()` has been constructed
\* against a Redis server that answered or did not, no request served yet
InitUpdater ==
    /\ u_initialised = FALSE /\ u_running = FALSE /\ u_thread = NoThread
    /\ u_threads = [t \in Updaters |-> "unborn"]
    /\ u_callers = [h \in Handlers |-> Idle]
    /\ u_calls = 0 /\ u_stopped = {}
    /\ u_refreshes = [t \in Updaters |-> 0]
    /\ \E reachable \in BOOLEAN :
          /\ c_pc = "ready"
          /\ c_enabled = Constructed(reachable).enabled
          /\ c_client = Constructed(reachable).client
          /\ c_unreachable = ~reachable
          /\ redis_up = reachable
    /\ c_ops = 0 /\ c_last = NoCacheOp /\ redis_keys = {}
    /\ CompareIdle
    /\ NodeOpsIdle
    /\ SamplerIdle
    /\ ResolverIdle
    /\ nomad_client = TRUE
    /\ metrics_history = <<>>
    /\ PipelineAbsent

NextUpdater ==
    \/ \E h \in Handlers :
          \/ BeginCall(h)
          \/ FirstRequestCheck(h)
          \/ FirstRequestSet(h)
          \/ StartCacheCheck(h)
          \/ StartCheck(h)
          \/ StartSet(h)
          \/ StartSpawn(h)
          \/ StopCheck(h)
          \/ StopClear(h)
          \/ StopJoin(h)
          \/ StopNone(h)
    \/ \E t \in Updaters :
          \/ UpdaterEnvs(t)
          \/ UpdaterWhile(t)
          \/ UpdaterFor(t)
          \/ UpdaterProbe(t)
          \/ UpdaterSleep(t)
          \/ UpdaterFinally(t)

SpecUpdater == InitUpdater /\ [][NextUpdater]_vars

\* ------------------------------------------------------ updater properties
\* a thread that a finished _stop call has stopped begins a refresh
Resumes(t) == t \in u_stopped /\ u_threads[t] # "probe" /\ u_threads'[t] = "probe"

\* C29 (as claimed): at most one updater thread is inside its refresh loop
\* at any time, and a thread that a finished _stop_dora_background_updater
\* call has stopped never begins another refresh.
C29_SingleUpdater ==
    /\ [](Cardinality({t \in Updaters : InLoop(t)}) <= 1)
    /\ [][\A t \in Updaters : ~Resumes(t)]_vars

====
